---- MODULE Spec2Model ----
(***************************************************************************)
(* Schedule execution engine of the bot: the schedules table, the          *)
(* advisory-lock helpers of utils/locks.ts, and startScheduler /           *)
(* executeSchedule of index.ts.                                            *)
(*                                                                         *)
(* Each await of the code is a step boundary; the code between two awaits  *)
(* is one atomic step.  Every lock query goes through pool.query, which    *)
(* runs it on some connection (database session) of the process's pool;    *)
(* PostgreSQL advisory locks belong to the session that took them and are  *)
(* re-entrant within it.                                                   *)
(***************************************************************************)
EXTENDS Integers, Sequences, FiniteSets

\* ---------------------------------------------------------------- bounds
NumProcs     == 2   \* processes running the scheduler against one database
NumConns     == 2   \* sessions the lock pool of a process may use
NumSchedules == 2   \* rows of the schedules table
MaxFirings   == 2   \* executeSchedule invocations in one behaviour
MaxStops     == 1   \* processes that are signalled, hit a fatal error or are killed
MaxCommands  == 2   \* commands of the schedule CLI in one behaviour
MaxWords     == 3   \* words of a message handed to generateThread

Procs == 1..NumProcs
Conns == 1..NumConns
Ids   == 1..NumSchedules
Sessions == Procs \X Conns

\* Wall-clock instants (ms) the clock visits: start-up ten seconds before the
\* top of an hour T, then T, T + 10 s, T + 60 s and T + 1 h.
StartTime == 3600000 - 10000
Instants  == {StartTime, 3600000, 3610000, 3660000, 7200000}

\* ------------------------------------------------------------- constants
Null        == -1      \* a null timestamp (Date | null)
MinInterval == 60000   \* const minInterval = 60 * 1000

\* The handlers of index.ts that end the process, and how a process can end.
Signals == {"SIGINT", "SIGTERM"}
Fatals  == {"unhandledRejection", "uncaughtException"}

Hourly    == "0 * * * *"
TenSecond == "*/10 * * * * *"
NeverRuns == "0 0 31 2 *"     \* parses, but no date ever matches it
Invalid   == "not a cron"     \* new Cron(pattern) throws on it

\* new Cron(pattern) returns rather than throws.
IsValidCron(pattern) == pattern \in {Hourly, TenSecond, NeverRuns}

CronPeriod(pattern) == IF pattern = Hourly THEN 3600000 ELSE 10000

\* new Cron(pattern).nextRun(): the first trigger instant strictly after t,
\* null when the pattern has none.
NextRun(pattern, t) ==
  IF pattern = NeverRuns THEN Null
  ELSE ((t \div CronPeriod(pattern)) + 1) * CronPeriod(pattern)

VARIABLES
  clock,   \* wall clock, ms
  rows,    \* the schedules table: id -> row
  held,    \* advisory locks: session -> id -> re-entrant hold count
  ppc,     \* process -> "init" | "running"
  jobs,    \* process -> sequence of live timers (the Cron[] of startScheduler)
  loaded,  \* process -> the enabled flag of each row when loadSchedules ran
  inv,     \* sequence of executeSchedule invocations, in firing order
  calls,   \* process -> what its shutdown handlers were given and called, in order
  cli,     \* the last command of the schedule CLI and how it ended
  upstream,  \* what the objkt API answers: tokens, listing sales, mints
  tokens,    \* the tokens table
  sales,     \* the nft_sales table
  runs,      \* the job-body runs (thank-you, shill, sync) started so far
  tweets,    \* the tweets posted so far
  message,   \* the message handed to generateThread, as its word lengths
  maxLength, \* the maxLength handed to generateThread
  threads,   \* what generateThread returned, as tweet lengths
  salesIn,   \* the sales handed to batchSalesByToken
  batched,   \* what batchSalesByToken returned
  retry,     \* the retryWithBackoff call in progress
  post,      \* the postThread call in progress
  timeline   \* the tweets postThread has posted, in order

engineVars == <<clock, rows, held, ppc, jobs, loaded, inv, calls, cli>>

callVars == <<salesIn, batched, retry, post, timeline>>

jobVars == <<upstream, tokens, sales, runs, tweets, message, maxLength, threads,
             callVars>>

vars == <<clock, rows, held, ppc, jobs, loaded, inv, calls, cli,
          upstream, tokens, sales, runs, tweets, message, maxLength, threads,
          salesIn, batched, retry, post, timeline>>

\* The engine is studied with the job bodies left out: nothing synced, nothing
\* posted, generateThread not called.
NoUpstream == [tokens |-> {}, listingSales |-> {}, mints |-> {}]

\* No call of batchSalesByToken, retryWithBackoff or postThread is under way.
NoRetry == [pc |-> "none"]

NoPost == [pc |-> "none"]

CallsIdle ==
  /\ salesIn = <<>>
  /\ batched = <<>>
  /\ retry = NoRetry
  /\ post = NoPost
  /\ timeline = <<>>

JobsIdle ==
  /\ upstream = NoUpstream
  /\ tokens = {}
  /\ sales = {}
  /\ runs = <<>>
  /\ tweets = {}
  /\ message = <<>>
  /\ maxLength = 0
  /\ threads = <<>>
  /\ CallsIdle

\* ---------------------------------------------------------- the database
PgCanLockGlobal(h, s, id) ==
  \A s2 \in Sessions : s2 # s => \A id2 \in Ids : h[s2][id2] = 0

\* pg_try_advisory_lock(id) on session s: granted unless another session
\* holds id; a session that already holds it is granted again.
PgCanLock(h, s, id) == \A s2 \in Sessions : s2 # s => h[s2][id] = 0

PgTryAdvisoryLock(h, s, id) ==
  IF PgCanLock(h, s, id) THEN [h EXCEPT ![s][id] = @ + 1] ELSE h

\* pg_advisory_unlock(id) on session s: one hold is dropped if s has one.
PgCanUnlock(h, s, id) == h[s][id] > 0

PgAdvisoryUnlock(h, s, id) ==
  IF PgCanUnlock(h, s, id) THEN [h EXCEPT ![s][id] = @ - 1] ELSE h

\* id SERIAL PRIMARY KEY: an id is unused until an INSERT takes it and is
\* never given out again after a DELETE.  type is 'thank' or 'shill' in every
\* row (CHECK constraint), so the two markers below are not rows.
Unused ==
  [type |-> "unused", cron_pattern |-> "", enabled |-> FALSE,
   last_run_at |-> Null, next_run_at |-> Null]

Deleted ==
  [type |-> "deleted", cron_pattern |-> "", enabled |-> FALSE,
   last_run_at |-> Null, next_run_at |-> Null]

IsRow(row) == row.type \in {"thank", "shill"}

\* The rows of the table in ascending id order, each with its id column.
AllRows(t) ==
  SelectSeq(
    [id \in 1..NumSchedules |->
       [id           |-> id,
        type         |-> t[id].type,
        cron_pattern |-> t[id].cron_pattern,
        enabled      |-> t[id].enabled,
        last_run_at  |-> t[id].last_run_at,
        next_run_at  |-> t[id].next_run_at]],
    IsRow)

IsEnabled(row) == row.enabled

loadSchedulesUnfiltered(t) == AllRows(t)

\* SELECT * FROM schedules WHERE enabled = true ORDER BY id ASC
loadSchedules(t) == SelectSeq(AllRows(t), IsEnabled)

\* A mutant: the UPDATE writes the row back when it is gone.
updateScheduleTimesUpserting(t, id, lastRunAt, nextRunAt) ==
  IF IsRow(t[id])
    THEN [t EXCEPT ![id].last_run_at = lastRunAt, ![id].next_run_at = nextRunAt]
    ELSE [t EXCEPT ![id] = [type |-> "thank", cron_pattern |-> Hourly,
                            enabled |-> TRUE, last_run_at |-> lastRunAt,
                            next_run_at |-> nextRunAt]]

\* UPDATE schedules SET last_run_at = $1, next_run_at = $2 WHERE id = $3
updateScheduleTimes(t, id, lastRunAt, nextRunAt) ==
  IF IsRow(t[id])
    THEN [t EXCEPT ![id].last_run_at = lastRunAt, ![id].next_run_at = nextRunAt]
    ELSE t

\* pool.query runs the query on a connection of the process's pool.  The
\* connections of a process that hold no lock are interchangeable, so the
\* lowest-numbered of them stands for all of them.
HoldsNothing(h, p, c) == \A id \in Ids : h[<<p, c>>][id] = 0

PoolMayUse(h, p, c) ==
  HoldsNothing(h, p, c) => \A c2 \in Conns : (c2 < c) => ~HoldsNothing(h, p, c2)

\* ------------------------------------------------------------- lock helpers
acquireLockAnyRow(h, s, id, queryFails) == ~queryFails

acquireLockIgnoringError(h, s, id, queryFails) == PgCanLock(h, s, id)

\* acquireLock: result.rows[0].acquired === true; a query error gives false.
acquireLock(h, s, id, queryFails) == (~queryFails) /\ PgCanLock(h, s, id)

releaseLockAlways(h, s, id, queryFails) == ~queryFails

\* releaseLock: result.rows[0].released === true; a query error gives false.
releaseLock(h, s, id, queryFails) == (~queryFails) /\ PgCanUnlock(h, s, id)

\* ------------------------------------------------------------ process life
\* A process is "init" until startScheduler has run, then "running"; in
\* "releasing" the releaseAllLocks of a signal handler is in flight, in
\* "closing" the closeDatabase of a signal handler, in "fatal_closing" the
\* closeDatabase of a fatal-error handler or of main().catch; "exited" is final.
Alive(p) == ppc[p] # "exited"

\* Another process may still stop within the bound.
Stopped(p) == ppc[p] \notin {"init", "running"}

MayStop(p) ==
  /\ ~Stopped(p)
  /\ \E S \in SUBSET (Procs \ {p}) :
       /\ \A q \in Procs \ {p} : Stopped(q) <=> q \in S
       /\ Cardinality(S) < MaxStops

\* closeDatabase has not been called yet: pool.query of the store still works.
StoreOpen(p) == ppc[p] \in {"init", "running", "releasing"}

\* The process is gone: the server ends its sessions and frees their locks.
KeepSessions(h, p) == h

EndSessions(h, p) ==
  [s \in Sessions |-> IF s[1] = p THEN [id \in Ids |-> 0] ELSE h[s]]

\* The schedule CLI has not been used.
NoCommand == [op |-> "none", id |-> 0, result |-> "none", n |-> 0]

\* ------------------------------------------------------------------ Init
\* A row as addSchedule inserts it: never run, next_run_at computed at insertion.
\* Row 1 is a 'thank' schedule firing every ten seconds, the others are
\* hourly 'shill' schedules.
InitRow(id, en) ==
  [type         |-> IF id = 1 THEN "thank" ELSE "shill",
   cron_pattern |-> IF id = 1 THEN TenSecond ELSE Hourly,
   enabled      |-> en,
   last_run_at  |-> Null,
   next_run_at  |-> NextRun(IF id = 1 THEN TenSecond ELSE Hourly, StartTime)]

Init ==
  /\ clock = StartTime
  /\ \E en \in [Ids -> BOOLEAN] :
       rows = [id \in Ids |-> InitRow(id, en[id])]
  /\ held = [s \in Sessions |-> [id \in Ids |-> 0]]
  /\ ppc = [p \in Procs |-> "init"]
  /\ jobs = [p \in Procs |-> <<>>]
  /\ loaded = [p \in Procs |-> <<>>]
  /\ inv = <<>>
  /\ calls = [p \in Procs |-> <<>>]
  /\ cli = NoCommand
  /\ JobsIdle

\* --------------------------------------------------------------- actions
\* The clock moves on to a later instant.
Tick ==
  /\ \E t \in Instants : t > clock /\ clock' = t
  /\ UNCHANGED <<rows, held, ppc, jobs, loaded, inv, calls, cli, jobVars>>

\* new Cron(pattern, {timezone}, () => executeSchedule(schedule))
NewTimer(schedule, t) ==
  [schedule |-> schedule, nextFire |-> NextRun(schedule.cron_pattern, t)]

\* The for loop of startScheduler: one timer per schedule, in order; new Cron
\* throws on an unparseable pattern, which ends the loop there.
RECURSIVE MakeTimers(_, _)
MakeTimers(schedules, t) ==
  IF schedules = <<>> THEN <<>>
  ELSE IF ~IsValidCron(Head(schedules).cron_pattern) THEN <<>>
  ELSE <<NewTimer(Head(schedules), t)>> \o MakeTimers(Tail(schedules), t)

AllValid(schedules) ==
  \A k \in DOMAIN schedules : IsValidCron(schedules[k].cron_pattern)

\* startScheduler: load the enabled rows and create one timer for each.  An
\* error thrown by new Cron rejects startScheduler and main; main().catch then
\* calls closeDatabase().finally(() => process.exit(1)).  The timers created
\* before the error stay live until the process exits.
startScheduler(p) ==
  /\ ppc[p] = "init"
  /\ \A q \in Procs : q < p => ppc[q] # "init"   \* processes are interchangeable
  /\ jobs' = [jobs EXCEPT ![p] = MakeTimers(loadSchedules(rows), clock)]
  /\ loaded' = [loaded EXCEPT ![p] = [id \in Ids |-> rows[id].enabled]]
  /\ IF AllValid(loadSchedules(rows))
       THEN /\ ppc' = [ppc EXCEPT ![p] = "running"]
            /\ calls' = calls
       ELSE /\ ppc' = [ppc EXCEPT ![p] = "fatal_closing"]
            /\ calls' = [calls EXCEPT ![p] = <<"startFailed", "closeDatabase">>]
  /\ UNCHANGED <<clock, rows, held, inv, cli, jobVars>>

LoadFailsKeepsRunning(p) ==
  /\ ppc[p] = "init"
  /\ \A q \in Procs : q < p => ppc[q] # "init"
  /\ ppc' = [ppc EXCEPT ![p] = "running"]
  /\ calls' = [calls EXCEPT ![p] = <<"loadFailed">>]
  /\ UNCHANGED <<clock, rows, held, jobs, loaded, inv, cli, jobVars>>

\* The SELECT of loadSchedules fails: startScheduler and main reject before
\* any timer exists, and main().catch calls
\* closeDatabase().finally(() => process.exit(1)).
LoadFails(p) ==
  /\ ppc[p] = "init"
  /\ \A q \in Procs : q < p => ppc[q] # "init"
  /\ ppc' = [ppc EXCEPT ![p] = "fatal_closing"]
  /\ calls' = [calls EXCEPT ![p] = <<"loadFailed", "closeDatabase">>]
  /\ UNCHANGED <<clock, rows, held, jobs, loaded, inv, cli, jobVars>>

\* A timer reaches its trigger instant and calls executeSchedule(schedule),
\* which runs up to its first await: the acquireLock query is in flight.
NewInvocation(p, schedule, alone) ==
  [proc     |-> p,
   schedule |-> schedule,
   pc       |-> "acquire",
   acquired |-> FALSE,
   now      |-> Null,
   job      |-> "none",
   dryRun   |-> FALSE,
   jobCalls |-> 0,
   jobThrew |-> FALSE,
   nextRun  |-> Null,
   wrote    |-> FALSE,
   released |-> "none",
   outcome  |-> "running",
   firedAlone |-> alone,
   freeBefore |-> FALSE,
   queryFailed |-> FALSE]

Fire(p, k) ==
  /\ Alive(p)
  /\ k \in DOMAIN jobs[p]
  /\ Len(inv) < MaxFirings
  /\ jobs[p][k].nextFire # Null
  /\ clock >= jobs[p][k].nextFire
  /\ clock % CronPeriod(jobs[p][k].schedule.cron_pattern) = 0
  /\ jobs' = [jobs EXCEPT ![p][k].nextFire =
                NextRun(jobs[p][k].schedule.cron_pattern, clock)]
  /\ inv' = Append(inv, NewInvocation(p, jobs[p][k].schedule,
                \A i \in DOMAIN inv :
                  (inv[i].proc = p /\ inv[i].schedule.id = jobs[p][k].schedule.id)
                    => inv[i].pc = "done"))
  /\ UNCHANGED <<clock, rows, held, ppc, loaded, calls, cli, jobVars>>

\* executeSchedule from the return of acquireLock to the next await.
TooSoon(schedule, now) ==
  /\ schedule.last_run_at # Null
  /\ now - schedule.last_run_at < MinInterval

JobFor(type) ==
  IF type = "thank" THEN "processThankYouTweets"
  ELSE IF type = "shill" THEN "processShillThread"
  ELSE "none"

SkipsNever(lockAcquired) == FALSE

\* if (!lockAcquired) { ...; return; }
SkipsWhenLocked(lockAcquired) == ~lockAcquired

\* r.acquired already holds the value acquireLock returned.
AfterAcquire(r, lockAcquired, now) ==
  IF SkipsWhenLocked(lockAcquired)
    THEN [r EXCEPT !.pc = "done", !.outcome = "skipped_locked"]
  ELSE IF TooSoon(r.schedule, now)
    THEN [r EXCEPT !.now = now, !.pc = "release",
                   !.outcome = "skipped_too_soon"]
  ELSE IF JobFor(r.schedule.type) # "none"
    THEN [r EXCEPT !.now = now, !.pc = "job",
                   !.job = JobFor(r.schedule.type), !.dryRun = FALSE,
                   !.jobCalls = @ + 1]
  ELSE [r EXCEPT !.now = now, !.pc = "update",
                 !.nextRun = NextRun(r.schedule.cron_pattern, now)]

\* The acquireLock query of invocation i runs on connection c.
AcquireLock(i, c, queryFails) ==
  /\ i \in DOMAIN inv
  /\ inv[i].pc = "acquire"
  /\ Alive(inv[i].proc)
  /\ PoolMayUse(held, inv[i].proc, c)
  /\ LET s  == <<inv[i].proc, c>>
         id == inv[i].schedule.id
         ok == acquireLock(held, s, id, queryFails)
         r  == [inv[i] EXCEPT
                  !.acquired = ok,
                  !.freeBefore = \A s2 \in Sessions : held[s2][id] = 0,
                  !.queryFailed = queryFails]
     IN /\ held' = IF queryFails THEN held ELSE PgTryAdvisoryLock(held, s, id)
        /\ inv' = [inv EXCEPT ![i] = AfterAcquire(r, ok, clock)]
  /\ UNCHANGED <<clock, rows, ppc, jobs, loaded, calls, cli, jobVars>>

\* The job body returns: the next run is computed and the UPDATE is issued.
JobReturns(i) ==
  /\ i \in DOMAIN inv
  /\ inv[i].pc = "job"
  /\ Alive(inv[i].proc)
  /\ inv' = [inv EXCEPT ![i].pc = "update",
               ![i].nextRun = NextRun(inv[i].schedule.cron_pattern, clock)]
  /\ UNCHANGED <<clock, rows, held, ppc, jobs, loaded, calls, cli, jobVars>>

JobThrowsDisabling(i) ==
  /\ i \in DOMAIN inv
  /\ inv[i].pc = "job"
  /\ Alive(inv[i].proc)
  /\ inv' = [inv EXCEPT ![i].pc = "release", ![i].jobThrew = TRUE,
               ![i].outcome = "failed"]
  /\ rows' = [rows EXCEPT ![inv[i].schedule.id].enabled = FALSE]
  /\ UNCHANGED <<clock, held, ppc, jobs, loaded, calls, cli, jobVars>>

\* The job body raises: the catch block logs, the finally block releases.
JobThrows(i) ==
  /\ i \in DOMAIN inv
  /\ inv[i].pc = "job"
  /\ Alive(inv[i].proc)
  /\ inv' = [inv EXCEPT ![i].pc = "release", ![i].jobThrew = TRUE,
               ![i].outcome = "failed"]
  /\ UNCHANGED <<clock, rows, held, ppc, jobs, loaded, calls, cli, jobVars>>

UpdateAfterRelease(i) ==
  /\ i \in DOMAIN inv
  /\ inv[i].pc = "done"
  /\ inv[i].nextRun # Null
  /\ ~inv[i].wrote
  /\ rows' = updateScheduleTimes(rows, inv[i].schedule.id, inv[i].now,
                                 inv[i].nextRun)
  /\ inv' = [inv EXCEPT ![i].wrote = TRUE, ![i].outcome = "completed"]
  /\ UNCHANGED <<clock, held, ppc, jobs, loaded, calls, cli, jobVars>>
\* A mutant: the firing also writes the new times into the record its timer
\* captured.
UpdateOkRefreshingRecord(i) ==
  /\ i \in DOMAIN inv
  /\ inv[i].pc = "update"
  /\ Alive(inv[i].proc)
  /\ StoreOpen(inv[i].proc)
  /\ rows' = updateScheduleTimes(rows, inv[i].schedule.id, inv[i].now,
                                 inv[i].nextRun)
  /\ inv' = [inv EXCEPT ![i].pc = "release", ![i].wrote = TRUE,
               ![i].outcome = "completed"]
  /\ jobs' = [jobs EXCEPT ![inv[i].proc] =
                [k \in DOMAIN @ |->
                   IF @[k].schedule.id = inv[i].schedule.id
                     THEN [@[k] EXCEPT !.schedule.last_run_at = inv[i].now,
                                       !.schedule.next_run_at = inv[i].nextRun]
                     ELSE @[k]]]
  /\ UNCHANGED <<clock, held, ppc, loaded, calls, cli, jobVars>>

\* The UPDATE of updateScheduleTimes runs.
UpdateOk(i) ==
  /\ i \in DOMAIN inv
  /\ inv[i].pc = "update"
  /\ Alive(inv[i].proc)
  /\ StoreOpen(inv[i].proc)
  /\ rows' = updateScheduleTimes(rows, inv[i].schedule.id, inv[i].now,
                                 inv[i].nextRun)
  /\ inv' = [inv EXCEPT ![i].pc = "release", ![i].wrote = TRUE,
               ![i].outcome = "completed"]
  /\ UNCHANGED <<clock, held, ppc, jobs, loaded, calls, cli, jobVars>>

UpdateFailsUncaught(i) ==
  /\ i \in DOMAIN inv
  /\ inv[i].pc = "update"
  /\ Alive(inv[i].proc)
  /\ inv' = [inv EXCEPT ![i].pc = "done", ![i].outcome = "rejected"]
  /\ UNCHANGED <<clock, rows, held, ppc, jobs, loaded, calls, cli, jobVars>>

\* The UPDATE fails: the catch block logs, the finally block releases.
UpdateFails(i) ==
  /\ i \in DOMAIN inv
  /\ inv[i].pc = "update"
  /\ Alive(inv[i].proc)
  /\ inv' = [inv EXCEPT ![i].pc = "release", ![i].outcome = "failed"]
  /\ UNCHANGED <<clock, rows, held, ppc, jobs, loaded, calls, cli, jobVars>>

\* The releaseLock query of the finally block runs on connection c.
ReleaseLock(i, c, queryFails) ==
  /\ i \in DOMAIN inv
  /\ inv[i].pc = "release"
  /\ Alive(inv[i].proc)
  /\ PoolMayUse(held, inv[i].proc, c)
  /\ LET s  == <<inv[i].proc, c>>
         id == inv[i].schedule.id
         ok == releaseLock(held, s, id, queryFails)
     IN /\ held' = IF queryFails THEN held ELSE PgAdvisoryUnlock(held, s, id)
        /\ inv' = [inv EXCEPT ![i].pc = "done",
                     ![i].released = IF ok THEN "true" ELSE "false",
                     ![i].queryFailed = queryFails]
  /\ UNCHANGED <<clock, rows, ppc, jobs, loaded, calls, cli, jobVars>>

\* ------------------------------------------------- signals and fatal errors
\* process.on('SIGINT' | 'SIGTERM'): the handler runs up to its first await,
\* the query of releaseAllLocks is in flight.
Signal(p, sig) ==
  /\ ppc[p] = "running"
  /\ MayStop(p)
  /\ ppc' = [ppc EXCEPT ![p] = "releasing"]
  /\ calls' = [calls EXCEPT ![p] = <<sig, "releaseAllLocks">>]
  /\ UNCHANGED <<clock, rows, held, jobs, loaded, inv, cli, jobVars>>

ReleaseAllThenExit(p, c, queryFails) ==
  /\ ppc[p] = "releasing"
  /\ PoolMayUse(held, p, c)
  /\ held' = EndSessions(held, p)
  /\ ppc' = [ppc EXCEPT ![p] = "exited"]
  /\ calls' = [calls EXCEPT ![p] = Append(@, "exit0")]
  /\ jobs' = [jobs EXCEPT ![p] = <<>>]
  /\ UNCHANGED <<clock, rows, loaded, inv, cli, jobVars>>

\* SELECT pg_advisory_unlock_all() runs on connection c of the lock pool and
\* frees what that one session holds; a query error is logged and swallowed.
\* The handler goes on to await closeDatabase().
ReleaseAllLocks(p, c, queryFails) ==
  /\ ppc[p] = "releasing"
  /\ PoolMayUse(held, p, c)
  /\ held' = IF queryFails THEN held
             ELSE [held EXCEPT ![<<p, c>>] = [id \in Ids |-> 0]]
  /\ ppc' = [ppc EXCEPT ![p] = "closing"]
  /\ calls' = [calls EXCEPT ![p] = Append(@, "closeDatabase")]
  /\ UNCHANGED <<clock, rows, jobs, loaded, inv, cli, jobVars>>

\* process.on('unhandledRejection' | 'uncaughtException'): the handler logs
\* and calls closeDatabase().finally(() => process.exit(1)).
FatalReleasing(p, kind) ==
  /\ ppc[p] = "running"
  /\ MayStop(p)
  /\ ppc' = [ppc EXCEPT ![p] = "releasing"]
  /\ calls' = [calls EXCEPT ![p] = <<kind, "releaseAllLocks">>]
  /\ UNCHANGED <<clock, rows, held, jobs, loaded, inv, cli, jobVars>>

\* A rejection nobody handles comes from a timer callback whose
\* executeSchedule promise was rejected; an uncaught exception can come from
\* anywhere (the lock pool has no 'error' listener).
Rejected(p) ==
  \E i \in DOMAIN inv : inv[i].proc = p /\ inv[i].outcome = "rejected"

Fatal(p, kind) ==
  /\ ppc[p] = "running"
  /\ MayStop(p)
  /\ kind = "unhandledRejection" => Rejected(p)
  /\ ppc' = [ppc EXCEPT ![p] = "fatal_closing"]
  /\ calls' = [calls EXCEPT ![p] = <<kind, "closeDatabase">>]
  /\ UNCHANGED <<clock, rows, held, jobs, loaded, inv, cli, jobVars>>

\* pool.end() of closeDatabase has settled and process.exit runs: with code 0
\* at the end of a signal handler, with code 1 in the finally of the others.
\* The timers go with the process and the server ends its sessions.
ExitCode(p) == IF ppc[p] = "closing" THEN "exit0" ELSE "exit1"

Exit(p) ==
  /\ ppc[p] \in {"closing", "fatal_closing"}
  /\ ppc' = [ppc EXCEPT ![p] = "exited"]
  /\ calls' = [calls EXCEPT ![p] = Append(@, ExitCode(p))]
  /\ jobs' = [jobs EXCEPT ![p] = <<>>]
  /\ held' = EndSessions(held, p)
  /\ UNCHANGED <<clock, rows, loaded, inv, cli, jobVars>>

\* The process is killed where it stands (SIGKILL, power loss): no handler
\* runs; its sessions end when the server sees the connections drop.
Crash(p) ==
  /\ ppc[p] \notin {"init", "exited"}
  /\ Stopped(p) \/ MayStop(p)
  /\ ppc' = [ppc EXCEPT ![p] = "exited"]
  /\ calls' = [calls EXCEPT ![p] = Append(@, "killed")]
  /\ jobs' = [jobs EXCEPT ![p] = <<>>]
  /\ held' = EndSessions(held, p)
  /\ UNCHANGED <<clock, rows, loaded, inv, cli, jobVars>>

\* ----------------------------------------------------------- schedule CLI
\* The id the next INSERT gets: ids are handed out in ascending order.
HasFreeId(t) == \E id \in Ids : t[id] = Unused

NextSerial(t) == CHOOSE id \in Ids : t[id] = Unused /\ \A j \in Ids : j < id => t[j] # Unused

\* addSchedule: new Cron(cronPattern) and nextRun() come first; an error
\* thrown by new Cron, a null nextRun or a failed INSERT is logged and
\* rethrown.  enabled defaults to true, last_run_at to null.
CanInsertAlways(cronPattern, nextRun) == TRUE

CanInsert(cronPattern, nextRun) == IsValidCron(cronPattern) /\ nextRun # Null

addSchedule(type, cronPattern, insertFails) ==
  /\ cli.n < MaxCommands
  /\ HasFreeId(rows)
  /\ LET nextRun == IF IsValidCron(cronPattern) THEN NextRun(cronPattern, clock)
                                                ELSE Null
         id      == NextSerial(rows)
     IN IF CanInsert(cronPattern, nextRun) /\ ~insertFails
          THEN /\ rows' = [rows EXCEPT ![id] =
                             [type         |-> type,
                              cron_pattern |-> cronPattern,
                              enabled      |-> TRUE,
                              last_run_at  |-> Null,
                              next_run_at  |-> nextRun]]
               /\ cli' = [op |-> "add", id |-> id, result |-> "ok", n |-> cli.n + 1]
          ELSE /\ rows' = rows
               /\ cli' = [op |-> "add", id |-> 0, result |-> "error", n |-> cli.n + 1]
  /\ UNCHANGED <<clock, held, ppc, jobs, loaded, inv, calls, jobVars>>

\* DELETE FROM schedules WHERE id = $1 RETURNING id
removeSchedule(id) ==
  /\ cli.n < MaxCommands
  /\ rows' = IF IsRow(rows[id]) THEN [rows EXCEPT ![id] = Deleted] ELSE rows
  /\ cli' = [op |-> "remove", id |-> id,
             result |-> IF IsRow(rows[id]) THEN "ok" ELSE "not_found",
             n |-> cli.n + 1]
  /\ UNCHANGED <<clock, held, ppc, jobs, loaded, inv, calls, jobVars>>

\* UPDATE schedules SET enabled = true ... WHERE id = $1 RETURNING id
enableSchedule(id) ==
  /\ cli.n < MaxCommands
  /\ rows' = IF IsRow(rows[id]) THEN [rows EXCEPT ![id].enabled = TRUE] ELSE rows
  /\ cli' = [op |-> "enable", id |-> id,
             result |-> IF IsRow(rows[id]) THEN "ok" ELSE "not_found",
             n |-> cli.n + 1]
  /\ UNCHANGED <<clock, held, ppc, jobs, loaded, inv, calls, jobVars>>

disableScheduleStoppingTimer(id) ==
  /\ cli.n < MaxCommands
  /\ rows' = IF IsRow(rows[id]) THEN [rows EXCEPT ![id].enabled = FALSE] ELSE rows
  /\ cli' = [op |-> "disable", id |-> id,
             result |-> IF IsRow(rows[id]) THEN "ok" ELSE "not_found",
             n |-> cli.n + 1]
  /\ jobs' = [p \in Procs |->
               SelectSeq(jobs[p], LAMBDA timer : timer.schedule.id # id)]
  /\ UNCHANGED <<clock, held, ppc, loaded, inv, calls, jobVars>>

\* UPDATE schedules SET enabled = false ... WHERE id = $1 RETURNING id
disableSchedule(id) ==
  /\ cli.n < MaxCommands
  /\ rows' = IF IsRow(rows[id]) THEN [rows EXCEPT ![id].enabled = FALSE] ELSE rows
  /\ cli' = [op |-> "disable", id |-> id,
             result |-> IF IsRow(rows[id]) THEN "ok" ELSE "not_found",
             n |-> cli.n + 1]
  /\ UNCHANGED <<clock, held, ppc, jobs, loaded, inv, calls, jobVars>>

\* ----------------------------------------------------------- specifications
\* The execution engine: start-up over a table of valid rows, timers firing,
\* executeSchedule.
Next ==
  \/ Tick
  \/ \E p \in Procs : startScheduler(p)
  \/ \E p \in Procs : \E k \in 1..NumSchedules : Fire(p, k)
  \/ \E i \in 1..MaxFirings : \E c \in Conns : \E f \in BOOLEAN : AcquireLock(i, c, f)
  \/ \E i \in 1..MaxFirings : JobReturns(i)
  \/ \E i \in 1..MaxFirings : JobThrows(i)
  \/ \E i \in 1..MaxFirings : UpdateOk(i)
  \/ \E i \in 1..MaxFirings : UpdateFails(i)
  \/ \E i \in 1..MaxFirings : \E c \in Conns : \E f \in BOOLEAN : ReleaseLock(i, c, f)

Spec == Init /\ [][Next]_vars

\* The process life: the engine together with signals, fatal errors and kills,
\* followed up to the first trigger instant of the timers.
LifeHorizon == NextRun(Hourly, StartTime)

LifeNext ==
  \/ Next /\ clock' <= LifeHorizon
  \/ \E p \in Procs : \E sig \in Signals : Signal(p, sig)
  \/ \E p \in Procs : \E c \in Conns : \E f \in BOOLEAN : ReleaseAllLocks(p, c, f)
  \/ \E p \in Procs : \E kind \in Fatals : Fatal(p, kind)
  \/ \E p \in Procs : Exit(p)
  \/ \E p \in Procs : Crash(p)

LifeSpec == Init /\ [][LifeNext]_vars

\* The engine up to the first trigger instant, with rows removed or disabled
\* from the command line while a scheduler runs and before its timers fire.
StaleNext ==
  \/ Next /\ clock' <= LifeHorizon
  \/ \E id \in Ids :
       /\ clock < LifeHorizon
       /\ \E p \in Procs : ppc[p] = "running"
       /\ removeSchedule(id)
  \/ \E id \in Ids :
       /\ clock < LifeHorizon
       /\ \E p \in Procs : ppc[p] = "running"
       /\ disableSchedule(id)

StaleSpec == Init /\ [][StaleNext]_vars

\* The table as the schedule CLI and other writers can leave it: ids are used
\* in ascending order; a row may carry a pattern that new Cron rejects, since
\* the column has no constraint and only addSchedule validates it.
AdminRow(id, en, valid) ==
  IF valid THEN InitRow(id, en)
  ELSE [InitRow(id, en) EXCEPT !.cron_pattern = Invalid, !.next_run_at = Null]

AdminInit ==
  /\ clock = StartTime
  /\ \E n \in 0..NumSchedules : \E en, valid \in [Ids -> BOOLEAN] :
       rows = [id \in Ids |-> IF id <= n THEN AdminRow(id, en[id], valid[id])
                                         ELSE Unused]
  /\ held = [s \in Sessions |-> [id \in Ids |-> 0]]
  /\ ppc = [p \in Procs |-> "init"]
  /\ jobs = [p \in Procs |-> <<>>]
  /\ loaded = [p \in Procs |-> <<>>]
  /\ inv = <<>>
  /\ calls = [p \in Procs |-> <<>>]
  /\ cli = NoCommand
  /\ JobsIdle

\* Start-up and the schedule CLI: the table changes under running processes.
AdminNext ==
  \/ Tick
  \/ \E p \in Procs : startScheduler(p)
  \/ \E p \in Procs : LoadFails(p)
  \/ \E p \in Procs : \E k \in 1..NumSchedules : Fire(p, k)
  \/ \E p \in Procs : Exit(p)
  \/ \E type \in {"thank", "shill"} :
       \E cronPattern \in {Hourly, TenSecond, NeverRuns, Invalid} :
         \E f \in BOOLEAN : addSchedule(type, cronPattern, f)
  \/ \E id \in Ids : removeSchedule(id)
  \/ \E id \in Ids : enableSchedule(id)
  \/ \E id \in Ids : disableSchedule(id)

AdminSpec == AdminInit /\ [][AdminNext]_vars

\* --------------------------------------------------------- generateThread
\* A message is kept as the lengths of the words message.split(' ') yields (a
\* word is empty where two spaces meet), a tweet as its length: the code
\* looks at nothing else.  An empty string is falsy, a string of length > 0
\* is truthy.
DefaultMaxLength == 280

WordLengths == {0, 1, 139, 140, 276, 277, DefaultMaxLength, DefaultMaxLength + 1}

Messages == UNION {[1..n -> WordLengths] : n \in 1..MaxWords}

\* The number of decimal digits of n, the length of `${n}`.
RECURSIVE Digits(_)
Digits(n) == IF n < 10 THEN 1 ELSE 1 + Digits(n \div 10)

\* The for loop over the words: current is the length of currentTweet.
RECURSIVE PackWords(_, _, _, _)
PackWords(words, current, acc, max) ==
  IF words = <<>>
    THEN IF current > 0 THEN Append(acc, current) ELSE acc
  ELSE LET word      == Head(words)
           testTweet == IF current > 0 THEN current + 1 + word ELSE word
       IN IF testTweet <= max
            THEN PackWords(Tail(words), testTweet, acc, max)
            ELSE PackWords(Tail(words), word,
                           IF current > 0 THEN Append(acc, current) ELSE acc,
                           max)

\* `${index + 1}/${threads.length} ${tweet}` when the thread has several tweets.
Numbered(packed, k) ==
  IF Len(packed) > 1
    THEN Digits(k) + 1 + Digits(Len(packed)) + 1 + packed[k]
    ELSE packed[k]

generateThread(msg, max) ==
  LET packed == PackWords(msg, 0, <<>>, max)
  IN [k \in 1..Len(packed) |-> Numbered(packed, k)]

\* A caller hands a message to generateThread and keeps the result.
EngineIdle ==
  /\ clock = StartTime
  /\ rows = [id \in Ids |-> Unused]
  /\ held = [s \in Sessions |-> [id \in Ids |-> 0]]
  /\ ppc = [p \in Procs |-> "init"]
  /\ jobs = [p \in Procs |-> <<>>]
  /\ loaded = [p \in Procs |-> <<>>]
  /\ inv = <<>>
  /\ calls = [p \in Procs |-> <<>>]
  /\ cli = NoCommand

ThreadInit ==
  /\ EngineIdle
  /\ upstream = NoUpstream
  /\ tokens = {}
  /\ sales = {}
  /\ runs = <<>>
  /\ tweets = {}
  /\ message \in Messages
  /\ maxLength = DefaultMaxLength
  /\ threads = <<>>
  /\ CallsIdle

CallGenerateThread ==
  /\ threads = <<>>
  /\ threads' = generateThread(message, maxLength)
  /\ UNCHANGED <<engineVars, upstream, tokens, sales, runs, tweets, message,
                 maxLength, callVars>>

ThreadNext == CallGenerateThread

ThreadSpec == ThreadInit /\ [][ThreadNext]_vars

(***************************************************************************)
(* The jobs a schedule runs: syncObjktData, processThankYouTweets and      *)
(* processShillThread, over the tokens and nft_sales tables and the        *)
(* account's timeline.  The objkt API is the environment: its answer       *)
(* (upstream) grows as collectors mint and buy.  Runs are invocations that *)
(* nothing excludes from one another: firings of different schedules hold  *)
(* different locks, and a manual run takes none.                           *)
(***************************************************************************)
MaxRuns == 2

threadVars == <<message, maxLength, threads, callVars>>

\* config.wallets.addresses and the addresses of two collectors.
Wallets == {"tz1me"}
Collectors == {"tz1a", "tz1b"}

\* Contract addresses and token ids as the char codes of their strings:
\* "KT1OE", "KT1GEN", "KT1ONE", "0", "1".
KT_OE == <<75, 84, 49, 79, 69>>
KT_GEN == <<75, 84, 49, 71, 69, 78>>
KT_ONE == <<75, 84, 49, 79, 78, 69>>
Id0 == <<48>>
Id1 == <<49>>

\* saleId = (saleId * 31 + charCode) >>> 0, on an unsigned 32-bit value
\* kept as <<high 16 bits, low 16 bits>>.
Limb == 65536

RECURSIVE HashFrom(_, _)
HashFrom(codes, saleId) ==
  IF codes = <<>> THEN saleId
  ELSE LET lo == saleId[2] * 31 + Head(codes)
           hi == saleId[1] * 31 + (lo \div Limb)
       IN  HashFrom(Tail(codes), <<hi % Limb, lo % Limb>>)

\* saleIdString = `${sale.fa_contract}:${sale.token_id}`
MintSaleId(sale) ==
  HashFrom(sale.fa_contract \o <<58>> \o sale.token_id, <<0, 0>>)

\* What the API can ever answer: the mints of one open edition (one token,
\* many holders) and of a generative collection (one token per mint), and
\* one listing sale of a minted token.
Mints ==
  {[fa_contract |-> KT_OE, token_id |-> Id0, token_name |-> "oe",
    holder |-> h] : h \in Wallets \cup Collectors}
  \cup {[fa_contract |-> KT_GEN, token_id |-> Id0, token_name |-> "gen",
         holder |-> "tz1a"],
        [fa_contract |-> KT_GEN, token_id |-> Id1, token_name |-> "gen",
         holder |-> "tz1b"]}

ListingSales ==
  {[sale_id |-> <<0, 7>>, token_name |-> "one", fa_contract |-> KT_ONE,
    token_id |-> Id0, buyer_alias |-> "tz1b"]}

OfContract(mints, c) == {m \in mints : m.fa_contract = c}

\* The token rows the API answers for a set of mints: the minted token, the
\* open edition, and the generative collection under the id of its latest
\* token (fa.tokens[0]).
UpstreamTokens(mints) ==
  {[fa_contract |-> KT_ONE, token_id |-> Id0, name |-> "one", supply |-> 1],
   [fa_contract |-> KT_OE, token_id |-> Id0, name |-> "oe",
    supply |-> Cardinality(OfContract(mints, KT_OE))]}
  \cup (IF OfContract(mints, KT_GEN) = {} THEN {}
        ELSE {[fa_contract |-> KT_GEN,
               token_id |-> IF \E m \in mints : m.fa_contract = KT_GEN
                                                 /\ m.token_id = Id1
                            THEN Id1 ELSE Id0,
               name |-> "gen",
               supply |-> Cardinality(OfContract(mints, KT_GEN))]})

\* The answer at the start: the artist holds a copy of the open edition and
\* the listed token has been bought once.
OwnMints == {m \in Mints : m.holder \in Wallets}

InitialUpstream ==
  [tokens |-> UpstreamTokens(OwnMints), listingSales |-> ListingSales,
   mints |-> OwnMints]

\* transformMintSale: buyer_alias = alias || tzdomain || address.
transformMintSale(m) ==
  [token_name |-> m.token_name, fa_contract |-> m.fa_contract,
   token_id |-> m.token_id, buyer_alias |-> m.holder]

SameToken(a, b) == a.fa_contract = b.fa_contract /\ a.token_id = b.token_id

\* A mutant: the conflicting row's supply is added to, not replaced.
upsertTokenAccumulating(tbl, token, dryRun) ==
  IF dryRun THEN tbl
  ELSE {t \in tbl : ~SameToken(t, token)}
       \cup {[token EXCEPT !.supply =
                @ + (IF \E t \in tbl : SameToken(t, token) THEN 1 ELSE 0)]}

\* INSERT INTO tokens ... ON CONFLICT (token_id, fa_contract) DO UPDATE
upsertToken(tbl, token, dryRun) ==
  IF dryRun THEN tbl
  ELSE {t \in tbl : ~SameToken(t, token)} \cup {token}

SaleRow(id, sale) ==
  [sale_id |-> id, token_name |-> sale.token_name,
   fa_contract |-> sale.fa_contract, token_id |-> sale.token_id,
   buyer_alias |-> sale.buyer_alias, processed |-> FALSE]

\* A mutant: the conflicting row is overwritten by the new, unprocessed one.
insertSaleOverwriting(tbl, sale, dryRun) ==
  IF dryRun THEN tbl
  ELSE {s \in tbl : s.sale_id # sale.sale_id}
       \cup {SaleRow(sale.sale_id, sale)}

\* INSERT INTO nft_sales ... ON CONFLICT (sale_id) DO NOTHING
insertSale(tbl, sale, dryRun) ==
  IF dryRun THEN tbl
  ELSE IF \E s \in tbl : s.sale_id = sale.sale_id THEN tbl
  ELSE tbl \cup {SaleRow(sale.sale_id, sale)}

\* A mutant: the dry-run flag is not looked at.
insertMintSaleAlways(tbl, sale, dryRun) ==
  IF \E s \in tbl : s.sale_id = MintSaleId(sale) THEN tbl
  ELSE tbl \cup {SaleRow(MintSaleId(sale), sale)}

insertMintSale(tbl, sale, dryRun) ==
  IF dryRun THEN tbl
  ELSE IF \E s \in tbl : s.sale_id = MintSaleId(sale) THEN tbl
  ELSE tbl \cup {SaleRow(MintSaleId(sale), sale)}

\* The loops of syncObjktData.  The order of an answer is not part of the
\* model: each loop takes the answer's elements in some fixed order.
RECURSIVE UpsertTokens(_, _, _)
UpsertTokens(tbl, todo, dryRun) ==
  IF todo = {} THEN tbl
  ELSE LET t == CHOOSE x \in todo : TRUE
       IN  UpsertTokens(upsertToken(tbl, t, dryRun), todo \ {t}, dryRun)

RECURSIVE InsertSales(_, _, _)
InsertSales(tbl, todo, dryRun) ==
  IF todo = {} THEN tbl
  ELSE LET s == CHOOSE x \in todo : TRUE
       IN  InsertSales(insertSale(tbl, s, dryRun), todo \ {s}, dryRun)

RECURSIVE InsertMintSales(_, _, _)
InsertMintSales(tbl, todo, dryRun) ==
  IF todo = {} THEN tbl
  ELSE LET m == CHOOSE x \in todo : TRUE
       IN  InsertMintSales(insertMintSale(tbl, transformMintSale(m), dryRun),
                           todo \ {m}, dryRun)

\* syncObjktData writes the token rows, then the listing sales, then the
\* mints of holders outside the watched wallets; a query that rejects ends
\* it with what the earlier phases wrote.  phases is the number of phases
\* that completed.
SyncPhases == 3

syncObjktData(db, u, dryRun, phases) ==
  LET t1 == IF phases >= 1 THEN UpsertTokens(db.tokens, u.tokens, dryRun)
            ELSE db.tokens
      s1 == IF phases >= 2 THEN InsertSales(db.sales, u.listingSales, dryRun)
            ELSE db.sales
      s2 == IF phases >= SyncPhases
            THEN InsertMintSales(s1, {m \in u.mints : m.holder \notin Wallets},
                                 dryRun)
            ELSE s1
  IN  [tokens |-> t1, sales |-> s2]

Database == [tokens |-> tokens, sales |-> sales]

\* SELECT ... FROM nft_sales s JOIN tokens t ... WHERE s.processed = false
getUnprocessedSales(db) ==
  {s \in db.sales :
     /\ ~s.processed
     /\ \E t \in db.tokens : SameToken(s, t)}

\* The batches of batchSalesByToken without their order and their buyers: one
\* batch per token_name, holding the sale_ids of that name.
BatchesOf(unprocessed) ==
  {[token_name |-> n,
    sale_ids |-> {s.sale_id : s \in {x \in unprocessed : x.token_name = n}}]
     : n \in {s.token_name : s \in unprocessed}}

\* UPDATE nft_sales SET processed = true WHERE sale_id = ANY($1)
markSalesProcessed(tbl, ids) ==
  {IF s.sale_id \in ids THEN [s EXCEPT !.processed = TRUE] ELSE s : s \in tbl}

\* UPDATE nft_sales SET processed = true WHERE processed = false
markAllSalesProcessed(tbl) == {[s EXCEPT !.processed = TRUE] : s \in tbl}

Kinds == {"thank", "shill", "sync"}

AfterSync(kind) ==
  CASE kind = "thank" -> "fetch"
    [] kind = "shill" -> "compose"
    [] OTHER -> "done"

IsRun(r) == r \in 1..Len(runs)

\* The batch a run is working on, and the position after it.
Batch(r) == CHOOSE b \in runs[r].batches : TRUE

NextBatch(run) ==
  LET rest == run.batches \ {CHOOSE b \in run.batches : TRUE}
  IN  [run EXCEPT !.batches = rest,
                  !.pc = IF rest = {} THEN "done" ELSE "generate"]

Thanks(r, batch) == [kind |-> "thank", run |-> r, sale_ids |-> batch.sale_ids]

JobInit ==
  /\ EngineIdle
  /\ upstream = InitialUpstream
  /\ tokens = {}
  /\ sales = {}
  /\ runs = <<>>
  /\ tweets = {}
  /\ message = <<>>
  /\ maxLength = 0
  /\ threads = <<>>
  /\ CallsIdle

\* A collector mints: the API's answer grows.  The generative collection
\* mints its tokens in the order of their ids.
Collect(m) ==
  /\ m \notin upstream.mints
  /\ (m.fa_contract = KT_GEN /\ m.token_id = Id1)
       => \E x \in upstream.mints : x.fa_contract = KT_GEN /\ x.token_id = Id0
  /\ upstream' = [upstream EXCEPT
                    !.mints = @ \cup {m},
                    !.tokens = UpstreamTokens(upstream.mints \cup {m})]
  /\ UNCHANGED <<engineVars, tokens, sales, runs, tweets, threadVars>>

\* A job is invoked: by a schedule's firing or from the command line.
StartRun(kind, dryRun) ==
  /\ Len(runs) < MaxRuns
  /\ runs' = Append(runs, [kind |-> kind, dryRun |-> dryRun, pc |-> "sync",
                           batches |-> {}])
  /\ UNCHANGED <<engineVars, upstream, tokens, sales, tweets, threadVars>>

\* await syncObjktData(dryRun): the first step of every job.  A sync that
\* rejects ends the job.
SyncStep(r, phases) ==
  /\ IsRun(r)
  /\ runs[r].pc = "sync"
  /\ LET db == syncObjktData(Database, upstream, runs[r].dryRun, phases)
     IN  /\ tokens' = db.tokens
         /\ sales' = db.sales
  /\ runs' = [runs EXCEPT ![r].pc = IF phases < SyncPhases THEN "failed"
                                    ELSE AfterSync(runs[r].kind)]
  /\ UNCHANGED <<engineVars, upstream, tweets, threadVars>>

\* const sales = await getUnprocessedSales(); batches = batchSalesByToken
FetchUnprocessed(r) ==
  /\ IsRun(r)
  /\ runs[r].pc = "fetch"
  /\ LET batches == BatchesOf(getUnprocessedSales(Database))
     IN  runs' = [runs EXCEPT ![r].batches = batches,
                              ![r].pc = IF batches = {} THEN "done"
                                        ELSE "generate"]
  /\ UNCHANGED <<engineVars, upstream, tokens, sales, tweets, threadVars>>

\* A mutant: a tweet that could not be generated ends the run.
GenerateTweetOrFail(r, ok) ==
  /\ IsRun(r)
  /\ runs[r].pc = "generate"
  /\ runs' = [runs EXCEPT ![r] = IF ~ok THEN [@ EXCEPT !.pc = "failed"]
                                 ELSE IF ~runs[r].dryRun
                                 THEN [@ EXCEPT !.pc = "send"]
                                 ELSE NextBatch(@)]
  /\ UNCHANGED <<engineVars, upstream, tokens, sales, tweets, threadVars>>

\* tweetText = await generateThankYouTweet(...): null skips the batch, and
\* so does a dry run.
GenerateTweet(r, ok) ==
  /\ IsRun(r)
  /\ runs[r].pc = "generate"
  /\ runs' = [runs EXCEPT ![r] = IF ok /\ ~runs[r].dryRun
                                 THEN [@ EXCEPT !.pc = "send"]
                                 ELSE NextBatch(@)]
  /\ UNCHANGED <<engineVars, upstream, tokens, sales, tweets, threadVars>>

\* A mutant: a tweet that was not sent still leads to marking.
SendTweetThenMarkAnyway(r, ok) ==
  /\ IsRun(r)
  /\ runs[r].pc = "send"
  /\ tweets' = IF ok THEN tweets \cup {Thanks(r, Batch(r))} ELSE tweets
  /\ runs' = [runs EXCEPT ![r].pc = "mark"]
  /\ UNCHANGED <<engineVars, upstream, tokens, sales, threadVars>>

\* tweetId = await sendTweet(...): null skips the batch.
SendTweet(r, ok) ==
  /\ IsRun(r)
  /\ runs[r].pc = "send"
  /\ tweets' = IF ok THEN tweets \cup {Thanks(r, Batch(r))} ELSE tweets
  /\ runs' = [runs EXCEPT ![r] = IF ok THEN [@ EXCEPT !.pc = "mark"]
                                 ELSE NextBatch(@)]
  /\ UNCHANGED <<engineVars, upstream, tokens, sales, threadVars>>

\* await markSalesProcessed(batch.sale_ids): a rejected query ends the run.
MarkProcessed(r, ok) ==
  /\ IsRun(r)
  /\ runs[r].pc = "mark"
  /\ sales' = IF ok THEN markSalesProcessed(sales, Batch(r).sale_ids)
              ELSE sales
  /\ runs' = [runs EXCEPT ![r] = IF ok THEN NextBatch(@)
                                 ELSE [@ EXCEPT !.pc = "failed"]]
  /\ UNCHANGED <<engineVars, upstream, tokens, tweets, threadVars>>

\* processShillThread after its sync: no tokens, a failed generation or a dry
\* run return before postThread; postThread posts or fails.
PostShill(r, generated, posted) ==
  /\ IsRun(r)
  /\ runs[r].pc = "compose"
  /\ tweets' = IF tokens # {} /\ generated /\ ~runs[r].dryRun /\ posted
               THEN tweets \cup {[kind |-> "shill", run |-> r,
                                   sale_ids |-> {}]}
               ELSE tweets
  /\ runs' = [runs EXCEPT ![r].pc = "done"]
  /\ UNCHANGED <<engineVars, upstream, tokens, sales, threadVars>>

\* The mark-processed script.
MarkAll ==
  /\ sales' = markAllSalesProcessed(sales)
  /\ UNCHANGED <<engineVars, upstream, tokens, runs, tweets, threadVars>>

JobNext ==
  \/ \E m \in Mints : Collect(m)
  \/ \E kind \in Kinds, dryRun \in BOOLEAN : StartRun(kind, dryRun)
  \/ \E r \in 1..MaxRuns, phases \in 0..SyncPhases : SyncStep(r, phases)
  \/ \E r \in 1..MaxRuns : FetchUnprocessed(r)
  \/ \E r \in 1..MaxRuns, ok \in BOOLEAN : GenerateTweet(r, ok)
  \/ \E r \in 1..MaxRuns, ok \in BOOLEAN : SendTweet(r, ok)
  \/ \E r \in 1..MaxRuns, ok \in BOOLEAN : MarkProcessed(r, ok)
  \/ \E r \in 1..MaxRuns, generated, posted \in BOOLEAN :
       PostShill(r, generated, posted)
  \/ MarkAll

JobSpec == JobInit /\ [][JobNext]_vars

(***************************************************************************)
(* batchSalesByToken and cleanTwitterHandle, on strings kept as the        *)
(* sequences of their char codes; a null or empty string is <<>>.          *)
(***************************************************************************)
MaxSales == 3

FirstIndex(s, c) ==
  CHOOSE k \in DOMAIN s : s[k] = c /\ \A j \in 1..(k - 1) : s[j] # c

Has(s, c) == \E k \in DOMAIN s : s[k] = c

\* url.split('/').pop()
RECURSIVE LastSegment(_)
LastSegment(s) ==
  IF Has(s, 47) THEN LastSegment(SubSeq(s, FirstIndex(s, 47) + 1, Len(s)))
  ELSE s

\* .replace(/\?.*/, '')
StripQuery(s) == IF Has(s, 63) THEN SubSeq(s, 1, FirstIndex(s, 63) - 1) ELSE s

\* .replace(/^@/, '')
StripAt(s) == IF s # <<>> /\ Head(s) = 64 THEN Tail(s) ELSE s

\* .trim()
RECURSIVE Trim(_)
Trim(s) ==
  IF s = <<>> THEN s
  ELSE IF Head(s) = 32 THEN Trim(Tail(s))
  ELSE IF s[Len(s)] = 32 THEN Trim(SubSeq(s, 1, Len(s) - 1))
  ELSE s

\* .toLowerCase()
ToLowerCase(s) ==
  [k \in DOMAIN s |-> IF s[k] \in 65..90 THEN s[k] + 32 ELSE s[k]]

cleanTwitterHandle(url) ==
  IF url = <<>> THEN <<>>
  ELSE LET handle == ToLowerCase(Trim(StripAt(StripQuery(LastSegment(url)))))
       IN  IF handle = <<>> THEN <<>> ELSE <<64>> \o handle

\* const buyerMention = twitterHandle || sale.buyer_alias
BuyerMention(sale) ==
  IF cleanTwitterHandle(sale.buyer_twitter) # <<>>
    THEN cleanTwitterHandle(sale.buyer_twitter)
    ELSE sale.buyer_alias

Includes(list, x) == \E k \in DOMAIN list : list[k] = x

\* A mutant: the mention is pushed without looking for it in the batch.
RECURSIVE BatchFromPushingAlways(_, _)
BatchFromPushingAlways(todo, batches) ==
  IF todo = <<>> THEN batches
  ELSE LET sale == Head(todo)
           all  == IF \E k \in DOMAIN batches :
                        batches[k].token_name = sale.token_name
                     THEN batches
                     ELSE Append(batches, [token_name |-> sale.token_name,
                                           buyers |-> <<>>,
                                           sale_ids |-> <<>>])
           k    == CHOOSE j \in DOMAIN all :
                     all[j].token_name = sale.token_name
           buyers == IF BuyerMention(sale) # <<>>
                       THEN Append(all[k].buyers, BuyerMention(sale))
                       ELSE all[k].buyers
       IN  BatchFromPushingAlways(Tail(todo),
             [all EXCEPT ![k].sale_ids = Append(@, sale.sale_id),
                         ![k].buyers = buyers])

\* The for loop of batchSalesByToken over the rest of the sales; batches is
\* the Map so far, in insertion order.
RECURSIVE BatchFrom(_, _)
BatchFrom(todo, batches) ==
  IF todo = <<>> THEN batches
  ELSE LET sale == Head(todo)
           all  == IF \E k \in DOMAIN batches :
                        batches[k].token_name = sale.token_name
                     THEN batches
                     ELSE Append(batches, [token_name |-> sale.token_name,
                                           buyers |-> <<>>,
                                           sale_ids |-> <<>>])
           k    == CHOOSE j \in DOMAIN all :
                     all[j].token_name = sale.token_name
           buyers == IF /\ BuyerMention(sale) # <<>>
                        /\ ~Includes(all[k].buyers, BuyerMention(sale))
                       THEN Append(all[k].buyers, BuyerMention(sale))
                       ELSE all[k].buyers
       IN  BatchFrom(Tail(todo),
             [all EXCEPT ![k].sale_ids = Append(@, sale.sale_id),
                         ![k].buyers = buyers])

batchSalesByToken(list) == BatchFrom(list, <<>>)

\* The values a sale row can carry: buyer_twitter null, "x/Bob?s=1" or "x/";
\* buyer_alias null, "@bob" or "al".
Twitters == {<<>>, <<120, 47, 66, 111, 98, 63, 115, 61, 49>>, <<120, 47>>}

Aliases == {<<>>, <<64, 98, 111, 98>>, <<97, 108>>}

TokenNames == {"oe", "gen"}

\* The rows of a result of getUnprocessedSales: sale_id is the primary key.
SaleLists ==
  UNION {[1..n -> [token_name : TokenNames, buyer_twitter : Twitters,
                   buyer_alias : Aliases]] : n \in 1..MaxSales}

WithIds(list) ==
  [k \in DOMAIN list |->
     [sale_id |-> k, token_name |-> list[k].token_name,
      buyer_twitter |-> list[k].buyer_twitter,
      buyer_alias |-> list[k].buyer_alias]]

BatchInit ==
  /\ EngineIdle
  /\ upstream = NoUpstream
  /\ tokens = {}
  /\ sales = {}
  /\ runs = <<>>
  /\ tweets = {}
  /\ message = <<>>
  /\ maxLength = 0
  /\ threads = <<>>
  /\ \E list \in SaleLists : salesIn = WithIds(list)
  /\ batched = <<>>
  /\ retry = NoRetry
  /\ post = NoPost
  /\ timeline = <<>>

CallBatchSalesByToken ==
  /\ batched = <<>>
  /\ batched' = batchSalesByToken(salesIn)
  /\ UNCHANGED <<engineVars, upstream, tokens, sales, runs, tweets, message,
                 maxLength, threads, salesIn, retry, post, timeline>>

BatchNext == CallBatchSalesByToken

BatchSpec == BatchInit /\ [][BatchNext]_vars

(***************************************************************************)
(* retryWithBackoff(fn, maxAttempts, initialDelay).  The error an attempt  *)
(* raises is named by the attempt's number; outcomes lists, call by call,  *)
(* whether fn succeeded, and waits the delays handed to setTimeout.         *)
(***************************************************************************)
MaxAttempts == 4

DefaultAttempts == 3

DefaultDelay == 1000

Delays == {DefaultDelay \div 4, DefaultDelay \div 2, DefaultDelay,
           2 * DefaultDelay}

\* A mutant: the delay grows by initialDelay with every attempt.
BackoffLinear(initialDelay, attempt) == initialDelay * attempt

\* const delay = initialDelay * Math.pow(2, attempt - 1)
Backoff(initialDelay, attempt) == initialDelay * 2 ^ (attempt - 1)

NewRetry(maxAttempts, initialDelay) ==
  [pc |-> "try", maxAttempts |-> maxAttempts, initialDelay |-> initialDelay,
   attempt |-> 1, outcomes |-> <<>>, waits |-> <<>>, lastError |-> 0,
   result |-> 0, thrown |-> 0]

\* return await fn() and its catch block, up to the next await or the end.
AfterAttempt(r, ok) ==
  IF ok
    THEN [r EXCEPT !.pc = "returned", !.result = r.attempt,
                   !.outcomes = Append(@, TRUE)]
  ELSE IF r.attempt < r.maxAttempts
    THEN [r EXCEPT !.pc = "wait", !.lastError = r.attempt,
                   !.outcomes = Append(@, FALSE),
                   !.waits = Append(@, Backoff(r.initialDelay, r.attempt))]
  ELSE [r EXCEPT !.pc = "threw", !.lastError = r.attempt,
                 !.thrown = r.attempt, !.outcomes = Append(@, FALSE)]

\* The timer of the wait runs out: attempt++ and the loop goes round.
AfterWait(r) == [r EXCEPT !.pc = "try", !.attempt = @ + 1]

RetryInit ==
  /\ EngineIdle
  /\ upstream = NoUpstream
  /\ tokens = {}
  /\ sales = {}
  /\ runs = <<>>
  /\ tweets = {}
  /\ message = <<>>
  /\ maxLength = 0
  /\ threads = <<>>
  /\ salesIn = <<>>
  /\ batched = <<>>
  /\ \E m \in 1..MaxAttempts : \E d \in Delays : retry = NewRetry(m, d)
  /\ post = NoPost
  /\ timeline = <<>>

CallFn(ok) ==
  /\ post = NoPost
  /\ retry.pc = "try"
  /\ retry' = AfterAttempt(retry, ok)
  /\ UNCHANGED <<engineVars, upstream, tokens, sales, runs, tweets, message,
                 maxLength, threads, salesIn, batched, post, timeline>>

WaitEnds ==
  /\ post = NoPost
  /\ retry.pc = "wait"
  /\ retry' = AfterWait(retry)
  /\ UNCHANGED <<engineVars, upstream, tokens, sales, runs, tweets, message,
                 maxLength, threads, salesIn, batched, post, timeline>>

RetryNext ==
  \/ \E ok \in BOOLEAN : CallFn(ok)
  \/ WaitEnds

RetrySpec == RetryInit /\ [][RetryNext]_vars

(***************************************************************************)
(* postThread(client, tweets).  A tweet is TRUE when it has text and FALSE *)
(* when it is the empty string; Twitter names the k-th tweet it accepts k. *)
(* Each tweet is posted through retryWithBackoff with its defaults.        *)
(***************************************************************************)
MaxTweets == 3

Threads == UNION {[1..n -> BOOLEAN] : n \in 0..MaxTweets}

\* A mutant: every later tweet replies to the first tweet of the thread.
ReplyTargetRoot(p, posted) == IF posted = <<>> THEN 0 ELSE posted[1].id

\* if (lastTweetId) tweetParams.reply = { in_reply_to_tweet_id: lastTweetId }
ReplyTarget(p, posted) == p.lastTweetId

\* The loop from index i to its next await: empty tweets are skipped; a
\* tweet with text starts a retryWithBackoff; past the end it returns true.
RECURSIVE LoopFrom(_, _)
LoopFrom(p, i) ==
  IF i > Len(p.tweets) THEN [p EXCEPT !.pc = "returned", !.i = i,
                                     !.result = "true"]
  ELSE IF ~p.tweets[i] THEN LoopFrom(p, i + 1)
  ELSE [p EXCEPT !.pc = "posting", !.i = i]

NewPost(list) ==
  LoopFrom([pc |-> "loop", tweets |-> list, i |-> 1, lastTweetId |-> 0,
            result |-> "none"], 1)

PostInit ==
  /\ EngineIdle
  /\ upstream = NoUpstream
  /\ tokens = {}
  /\ sales = {}
  /\ runs = <<>>
  /\ tweets = {}
  /\ message = <<>>
  /\ maxLength = 0
  /\ threads = <<>>
  /\ salesIn = <<>>
  /\ batched = <<>>
  /\ \E list \in Threads : post = NewPost(list)
  /\ retry = IF post.pc = "posting"
               THEN NewRetry(DefaultAttempts, DefaultDelay) ELSE NoRetry
  /\ timeline = <<>>

\* One call of client.v2.tweet inside retryWithBackoff.  Accepted: the tweet
\* is on the timeline, lastTweetId is its id, and a tweet that is not the
\* last of the list is followed by the 2-3 s pause.  Refused for the last
\* time: the catch block returns false.
TweetAttempt(ok) ==
  /\ post.pc = "posting"
  /\ retry.pc = "try"
  /\ retry' = AfterAttempt(retry, ok)
  /\ timeline' = IF ok
                   THEN Append(timeline,
                               [index |-> post.i,
                                replyTo |-> ReplyTarget(post, timeline),
                                id |-> Len(timeline) + 1])
                   ELSE timeline
  /\ post' = IF ok
               THEN IF post.i < Len(post.tweets)
                      THEN [post EXCEPT !.pc = "pause",
                                        !.lastTweetId = Len(timeline) + 1]
                      ELSE [post EXCEPT !.pc = "returned", !.i = @ + 1,
                                        !.lastTweetId = Len(timeline) + 1,
                                        !.result = "true"]
             ELSE IF AfterAttempt(retry, ok).pc = "threw"
               THEN [post EXCEPT !.pc = "returned", !.result = "false"]
             ELSE post
  /\ UNCHANGED <<engineVars, upstream, tokens, sales, runs, tweets, message,
                 maxLength, threads, salesIn, batched>>

\* The backoff wait inside retryWithBackoff runs out.
TweetWaitEnds ==
  /\ post.pc = "posting"
  /\ retry.pc = "wait"
  /\ retry' = AfterWait(retry)
  /\ UNCHANGED <<engineVars, upstream, tokens, sales, runs, tweets, message,
                 maxLength, threads, salesIn, batched, post, timeline>>

\* The pause between two tweets runs out: i++ and the loop goes round.
PauseEnds ==
  /\ post.pc = "pause"
  /\ post' = LoopFrom(post, post.i + 1)
  /\ retry' = IF LoopFrom(post, post.i + 1).pc = "posting"
                THEN NewRetry(DefaultAttempts, DefaultDelay) ELSE retry
  /\ UNCHANGED <<engineVars, upstream, tokens, sales, runs, tweets, message,
                 maxLength, threads, salesIn, batched, timeline>>

PostNext ==
  \/ \E ok \in BOOLEAN : TweetAttempt(ok)
  \/ TweetWaitEnds
  \/ PauseEnds

PostSpec == PostInit /\ [][PostNext]_vars

\* ------------------------------------------------------- shared predicates
\* The lock attempt of an invocation has returned.
Attempted(r) == r.pc # "acquire"

\* An invocation is between its successful acquireLock and its releaseLock.
Holding(r) == r.acquired /\ r.pc \in {"job", "update", "release"}

SameSchedule(i, j) == inv[i].schedule.id = inv[j].schedule.id

SameTimer(i, j) == inv[i].proc = inv[j].proc /\ SameSchedule(i, j)

NoTimer(timers, id) ==
  \A k \in DOMAIN timers : timers[k].schedule.id # id

ExactlyOneTimer(timers, id) ==
  /\ \E k \in DOMAIN timers : timers[k].schedule.id = id
  /\ \A k1, k2 \in DOMAIN timers :
       (timers[k1].schedule.id = id /\ timers[k2].schedule.id = id) => k1 = k2

IsPrefix(s, t) ==
  /\ Len(s) <= Len(t)
  /\ \A k \in 1..Len(s) : s[k] = t[k]

\* What the handlers of a process did, leaving out a final kill.
Handled(p) ==
  IF calls[p] # <<>> /\ calls[p][Len(calls[p])] = "killed"
    THEN SubSeq(calls[p], 1, Len(calls[p]) - 1)
    ELSE calls[p]

\* The schedule records the live timers of a process captured, in order.
TimerSchedules(p) == [k \in DOMAIN jobs[p] |-> jobs[p][k].schedule]

HoldsNoLock(p) == \A c \in Conns : \A id \in Ids : held[<<p, c>>][id] = 0

\* ------------------------------------------------------------------ claims

\* C1: mutual exclusion per schedule id -- no two executeSchedule invocations
\* of the same schedule id are at the same time between a successful
\* acquireLock and their releaseLock, in one process or in two.
C1_MutualExclusion ==
  \A i, j \in DOMAIN inv :
    (i # j /\ SameSchedule(i, j)) => ~(Holding(inv[i]) /\ Holding(inv[j]))

\* C2: job-body failure isolation -- an invocation whose job body raised has,
\* when it ends, persisted last_run_at = its now and a non-null next_run_at.
C2_JobFailureStillPersists ==
  \A i \in DOMAIN inv :
    (inv[i].jobThrew /\ inv[i].pc = "done")
      => /\ inv[i].wrote
         /\ inv[i].nextRun # Null

\* C3: lock release on every exit path -- whenever no invocation of schedule
\* id S is between acquire and release (and no lock query of S met a database
\* error), no session holds the lock of S, so that a later tryAcquire(S)
\* succeeds.
C3_LockFreedWhenInvocationEnds ==
  \A id \in Ids :
    (\A i \in DOMAIN inv :
       inv[i].schedule.id = id => (~Holding(inv[i]) /\ ~inv[i].queryFailed))
      => \A s \in Sessions : held[s][id] = 0

\* C4: duplicate trigger -- a timer whose schedule was loaded with
\* last_run_at = null fired at T and ran to completion, persisting
\* last_run_at = T; when a second firing of the same timer gets the lock at
\* T + 10 s it is skipped by the minimum-interval check and runs no job body.
C4_DuplicateTriggerSkipped ==
  [][\A i, j \in DOMAIN inv :
       (/\ i # j
        /\ SameTimer(i, j)
        /\ inv[i].schedule.last_run_at = Null
        /\ inv[i].pc = "done"
        /\ inv[i].wrote
        /\ rows[inv[i].schedule.id].last_run_at = inv[i].now
        /\ clock = inv[i].now + 10000
        /\ inv[j].firedAlone
        /\ inv[j].pc = "acquire"
        /\ inv'[j].pc # "acquire"
        /\ inv'[j].acquired)
       => /\ inv'[j].outcome = "skipped_too_soon"
          /\ inv'[j].jobCalls = 0]_vars

\* C5: minimum-interval law -- an invocation that holds the lock and finds
\* last_run_at set with now - last_run_at < 60 000 ms runs no job body, writes
\* no timestamps and releases the lock; at 60 000 ms or more it is not skipped
\* as too soon.
C5_MinimumIntervalLaw ==
  \A i \in DOMAIN inv :
    (Attempted(inv[i]) /\ inv[i].acquired /\ ~inv[i].queryFailed)
      => /\ TooSoon(inv[i].schedule, inv[i].now)
              => /\ inv[i].outcome = "skipped_too_soon"
                 /\ inv[i].jobCalls = 0
                 /\ ~inv[i].wrote
                 /\ inv[i].pc = "done" => inv[i].released = "true"
         /\ ~TooSoon(inv[i].schedule, inv[i].now)
              => inv[i].outcome # "skipped_too_soon"

\* C6: skipped when locked -- a firing whose acquireLock returned false ends
\* at once: the step that returns false changes neither the table nor the
\* locks, and from then on the invocation is finished, has run no job body,
\* written no timestamps and called no releaseLock, and is never resumed.
C6_SkippedWhenLocked ==
  [][\A i \in DOMAIN inv' :
       (Attempted(inv'[i]) /\ ~inv'[i].acquired)
         => /\ inv'[i].pc = "done"
            /\ inv'[i].outcome = "skipped_locked"
            /\ inv'[i].jobCalls = 0
            /\ ~inv'[i].wrote
            /\ inv'[i].released = "none"
            /\ (i \in DOMAIN inv /\ inv[i].pc = "acquire")
                 => (rows' = rows /\ held' = held)
            /\ (i \in DOMAIN inv /\ Attempted(inv[i])) => inv'[i] = inv[i]]_vars

C6_Witness ==
  \E i, j \in DOMAIN inv :
    /\ i # j
    /\ SameSchedule(i, j)
    /\ Holding(inv[i])
    /\ Attempted(inv[j])
    /\ ~inv[j].acquired
    /\ ~inv[j].queryFailed
    /\ inv[j].pc = "done"

\* C7: successful firing -- an hourly schedule loaded with last_run_at = null
\* fires with the lock free and the job body succeeds; when the invocation
\* has ended there was exactly one job-body call with dry-run false, the
\* persisted next_run_at is the first trigger instant after T = now (T + 1 h)
\* and the lock was released, however long the job body took.
C7_SuccessfulFiring ==
  \A i \in DOMAIN inv :
    (/\ inv[i].schedule.cron_pattern = Hourly
     /\ inv[i].schedule.last_run_at = Null
     /\ inv[i].freeBefore
     /\ inv[i].acquired
     /\ ~inv[i].queryFailed
     /\ ~inv[i].jobThrew
     /\ inv[i].wrote
     /\ inv[i].pc = "done")
      => /\ inv[i].jobCalls = 1
         /\ inv[i].dryRun = FALSE
         /\ inv[i].nextRun = NextRun(Hourly, inv[i].now)
         /\ inv[i].nextRun = inv[i].now + 3600000
         /\ inv[i].released = "true"

\* C8: the persisted last_run_at of a schedule never decreases.
C8_LastRunMonotonic ==
  [][\A id \in Ids : rows'[id].last_run_at >= rows[id].last_run_at]_vars

\* C9: two processes attempt the lock of the same id, the lock being free
\* before the first attempt and neither having released yet: exactly one of
\* the two attempts returns true.
C9_ExactlyOneAcquires ==
  \A i, j \in DOMAIN inv :
    (/\ inv[i].proc # inv[j].proc
     /\ SameSchedule(i, j)
     /\ Attempted(inv[i]) /\ Attempted(inv[j])
     /\ ~inv[i].queryFailed /\ ~inv[j].queryFailed
     /\ inv[i].acquired => inv[i].pc # "done"
     /\ inv[j].acquired => inv[j].pc # "done"
     /\ inv[i].freeBefore \/ inv[j].freeBefore)
      => (inv[i].acquired # inv[j].acquired)

C9_Witness ==
  \E i, j \in DOMAIN inv :
    /\ inv[i].proc # inv[j].proc
    /\ SameSchedule(i, j)
    /\ inv[i].freeBefore
    /\ Holding(inv[i])
    /\ Attempted(inv[j])
    /\ ~inv[j].queryFailed
    /\ ~inv[j].acquired

\* C10: a running process holds exactly one timer for each row that was
\* enabled when start-up loaded the table, and none for a row that was
\* disabled then.
C10_OneTimerPerEnabledRow ==
  \A p \in Procs :
    ppc[p] = "running"
      => \A id \in DOMAIN loaded[p] :
           IF loaded[p][id] THEN ExactlyOneTimer(jobs[p], id)
                                    ELSE NoTimer(jobs[p], id)

C10_Witness ==
  \E p \in Procs : \E a, b \in DOMAIN loaded[p] :
    /\ ppc[p] = "running"
    /\ loaded[p][a] /\ ExactlyOneTimer(jobs[p], a)
    /\ ~loaded[p][b] /\ NoTimer(jobs[p], b)

\* C11: start-up with an invalid row -- the step in which a process leaves
\* start-up leaves it running (it does not abort), with exactly one timer for
\* every enabled row whose pattern is valid, whatever the other rows hold.
C11_InvalidRowSkippedAlone ==
  [][\A p \in Procs :
       (ppc[p] = "init" /\ ppc'[p] # "init")
         => /\ ppc'[p] = "running"
            /\ \A id \in Ids :
                 (IsRow(rows[id]) /\ rows[id].enabled
                    /\ IsValidCron(rows[id].cron_pattern))
                   => ExactlyOneTimer(jobs'[p], id)]_vars

\* C12: graceful shutdown -- after SIGINT or SIGTERM the handler calls
\* releaseAllLocks, then closeDatabase, then exits with code 0, in this order;
\* once it has exited, no session of the process holds any advisory lock.
C12_GracefulShutdownOrder ==
  \A p \in Procs :
    (calls[p] # <<>> /\ calls[p][1] \in Signals)
      => /\ IsPrefix(Handled(p),
                     <<calls[p][1], "releaseAllLocks", "closeDatabase", "exit0">>)
         /\ Len(Handled(p)) >= 2
         /\ ppc[p] = "exited" => HoldsNoLock(p)

C12_Witness ==
  \E p \in Procs : \E i \in DOMAIN inv :
    /\ calls[p] # <<>>
    /\ calls[p][1] \in Signals
    /\ calls[p][Len(calls[p])] = "exit0"
    /\ inv[i].proc = p
    /\ Holding(inv[i])

\* C13: abrupt shutdown -- after an unhandled rejection or an uncaught
\* exception the handler calls closeDatabase and then exits with code 1;
\* releaseAllLocks is not called on this path.
C13_AbruptShutdownPath ==
  \A p \in Procs :
    (calls[p] # <<>> /\ calls[p][1] \in Fatals)
      => /\ IsPrefix(Handled(p), <<calls[p][1], "closeDatabase", "exit1">>)
         /\ Len(Handled(p)) >= 2
         /\ \A k \in DOMAIN calls[p] : calls[p][k] # "releaseAllLocks"

C13_Witness ==
  \E p \in Procs : \E i \in DOMAIN inv :
    /\ calls[p] # <<>>
    /\ calls[p][1] \in Fatals
    /\ calls[p][Len(calls[p])] = "exit1"
    /\ inv[i].proc = p
    /\ Holding(inv[i])

C15_AddIsAllOrNothing ==
  [][/\ \A id \in Ids :
          (rows[id] = Unused /\ rows'[id] # Unused)
            => /\ IsValidCron(rows'[id].cron_pattern)
               /\ rows'[id].next_run_at # Null
               /\ rows'[id].next_run_at = NextRun(rows'[id].cron_pattern, clock)
               /\ cli' = [op |-> "add", id |-> id, result |-> "ok",
                          n |-> cli.n + 1]
     /\ (cli'.op = "add" /\ cli'.n = cli.n + 1)
          => \/ cli'.result = "error" /\ rows' = rows
             \/ /\ cli'.result = "ok"
                /\ rows[cli'.id] = Unused
                /\ IsRow(rows'[cli'.id])]_vars

\* An addSchedule failed on an empty table, which is still empty.
C15_Witness ==
  /\ cli.op = "add"
  /\ cli.result = "error"
  /\ \A id \in Ids : rows[id] = Unused

\* C16: the schedule CLI does not reach a running process -- no step changes
\* the timers of a started process or the schedule records they captured
\* while the process lives, and a CLI command changes no timer and no process.
C16_ManagementLeavesTimers ==
  [][/\ \A p \in Procs :
          (ppc[p] # "init" /\ ppc'[p] # "exited")
            => TimerSchedules(p)' = TimerSchedules(p)
     /\ (cli' # cli) => (jobs' = jobs /\ ppc' = ppc /\ loaded' = loaded)]_vars

\* A running process still has the timer of a row that has since been
\* disabled or removed, and lacks the timer of a row added after its start.
C16_Witness ==
  \E p \in Procs : \E k \in DOMAIN jobs[p] : \E id \in Ids :
    /\ ppc[p] = "running"
    /\ jobs[p][k].schedule.enabled
    /\ ~rows[jobs[p][k].schedule.id].enabled
    /\ IsRow(rows[id])
    /\ rows[id].enabled
    /\ NoTimer(jobs[p], id)

\* C17: releaseLock with nothing to release -- when no session of the calling
\* process holds the lock of the id, releaseLock returns false; whenever it
\* returns false the locks of every id and session are as before; when it
\* returns true one hold of that id was dropped; and it always returns.
C17_ReleaseIsSafeNoOp ==
  [][\A i \in DOMAIN inv :
       (inv[i].pc = "release" /\ inv'[i].pc # "release")
         => /\ inv'[i].pc = "done"
            /\ inv'[i].released \in {"true", "false"}
            /\ inv'[i].outcome # "rejected"
            /\ (\A c \in Conns : held[<<inv[i].proc, c>>][inv[i].schedule.id] = 0)
                 => inv'[i].released = "false"
            /\ inv'[i].released = "false" => held' = held
            /\ inv'[i].released = "true"
                 => \E c \in Conns :
                      /\ held[<<inv[i].proc, c>>][inv[i].schedule.id] > 0
                      /\ held' = PgAdvisoryUnlock(held, <<inv[i].proc, c>>,
                                                  inv[i].schedule.id)]_vars

\* pg_advisory_unlock answered false (no database error) and no session of
\* the process holds the lock of that id.
C17_Witness ==
  \E i \in DOMAIN inv :
    /\ inv[i].pc = "done"
    /\ inv[i].released = "false"
    /\ ~inv[i].queryFailed
    /\ Alive(inv[i].proc)
    /\ \A c \in Conns : held[<<inv[i].proc, c>>][inv[i].schedule.id] = 0

\* C18: acquireLock is a trylock -- a pending acquireLock can always complete,
\* whoever holds the lock; it completes with true or false, never with an
\* error, and a database error during the attempt gives false.
C18_TryLockNeverBlocks ==
  [][\A i \in DOMAIN inv :
       (inv[i].pc = "acquire" /\ Alive(inv[i].proc))
         => /\ ENABLED (\E c \in Conns : \E f \in BOOLEAN : AcquireLock(i, c, f))
            /\ inv'[i].pc # "acquire"
                 => /\ inv'[i].acquired \in BOOLEAN
                    /\ inv'[i].queryFailed => ~inv'[i].acquired
                    /\ inv'[i].outcome # "rejected"
                    /\ ppc' = ppc]_vars

\* The lock was free, the query failed, and acquireLock returned false.
C18_Witness ==
  \E i \in DOMAIN inv :
    /\ inv[i].freeBefore
    /\ inv[i].queryFailed
    /\ ~inv[i].acquired
    /\ inv[i].outcome = "skipped_locked"

\* C19: the lock brackets the firing -- a job body is called only in the step
\* in which acquireLock returned true, it runs only while the lock call has
\* returned true and releaseLock has not been issued, and the timestamps are
\* written only by an invocation in that same bracket.
C19_LockBracketsFiring ==
  [][/\ \A i \in DOMAIN inv :
          /\ inv'[i].jobCalls > inv[i].jobCalls
               => /\ inv[i].pc = "acquire"
                  /\ inv'[i].acquired
                  /\ inv'[i].pc = "job"
          /\ inv'[i].pc = "job"
               => (inv'[i].acquired /\ inv'[i].released = "none")
          /\ (inv'[i].wrote /\ ~inv[i].wrote)
               => /\ inv[i].acquired
                  /\ inv[i].pc = "update"
                  /\ inv[i].released = "none"
     /\ rows' # rows
          => \E i \in DOMAIN inv : inv'[i].wrote /\ ~inv[i].wrote]_vars

C19_Witness ==
  \E i \in DOMAIN inv :
    /\ inv[i].pc = "done"
    /\ inv[i].acquired
    /\ inv[i].jobCalls = 1
    /\ inv[i].wrote
    /\ inv[i].released = "true"

\* C20: error containment -- the promise of executeSchedule is never
\* rejected; the step in which a lock query, the job body or the timestamp
\* update fails changes no process and no timer, and no process ever handles
\* an unhandled rejection.
C20_ErrorsContained ==
  [][/\ \A i \in DOMAIN inv :
          /\ inv'[i].outcome # "rejected"
          /\ (\/ inv'[i].queryFailed /\ ~inv[i].queryFailed
              \/ inv'[i].jobThrew /\ ~inv[i].jobThrew
              \/ inv'[i].outcome = "failed" /\ inv[i].outcome # "failed")
               => (ppc' = ppc /\ jobs' = jobs /\ calls' = calls)
     /\ \A p \in Procs : \A k \in DOMAIN calls'[p] :
          calls'[p][k] # "unhandledRejection"]_vars

\* A firing failed and ended, and the process runs on with all its timers
\* and has completed another firing.
C20_Witness ==
  \E i, j \in DOMAIN inv :
    /\ i # j
    /\ inv[i].proc = inv[j].proc
    /\ inv[i].pc = "done"
    /\ inv[i].outcome = "failed"
    /\ inv[j].outcome = "completed"
    /\ ppc[inv[i].proc] = "running"
    /\ Len(jobs[inv[i].proc]) = NumSchedules

\* C21: a failing job body leaves the schedule alone -- the step in which the
\* job body raises changes no row, no timer and no process, and no step of
\* the engine ever changes the enabled flag of a row.
C21_FailureKeepsScheduleLive ==
  [][/\ \A i \in DOMAIN inv :
          (inv'[i].jobThrew /\ ~inv[i].jobThrew)
            => (rows' = rows /\ jobs' = jobs /\ ppc' = ppc)
     /\ \A id \in Ids : rows'[id].enabled = rows[id].enabled]_vars

\* The job body of a firing raised; the schedule is still enabled and a later
\* firing of the same timer, started after the failed one had ended, got the
\* lock and called the job body again.
C21_Witness ==
  \E i, j \in DOMAIN inv :
    /\ i < j
    /\ SameTimer(i, j)
    /\ inv[i].jobThrew
    /\ inv[i].pc = "done"
    /\ inv[j].firedAlone
    /\ inv[j].jobCalls = 1
    /\ rows[inv[i].schedule.id].enabled

\* C22: a failed start-up load is fatal -- the process never runs and never
\* has a timer; main().catch calls closeDatabase and then exits with code 1.
C22_LoadFailureIsFatal ==
  \A p \in Procs :
    (calls[p] # <<>> /\ calls[p][1] = "loadFailed")
      => /\ IsPrefix(calls[p], <<"loadFailed", "closeDatabase", "exit1">>)
         /\ Len(calls[p]) >= 2
         /\ ppc[p] \in {"fatal_closing", "exited"}
         /\ jobs[p] = <<>>

C22_Witness ==
  \E p \in Procs : \E id \in Ids :
    /\ calls[p] = <<"loadFailed", "closeDatabase", "exit1">>
    /\ IsRow(rows[id])
    /\ rows[id].enabled
    /\ IsValidCron(rows[id].cron_pattern)

\* C23: locks are keyed by schedule id -- a lock attempt made while no session
\* holds the lock of its own id and without a database error returns true,
\* whatever locks of other ids are held.
C23_LocksKeyedById ==
  \A i \in DOMAIN inv :
    (Attempted(inv[i]) /\ inv[i].freeBefore /\ ~inv[i].queryFailed)
      => inv[i].acquired

\* Two processes hold the locks of two different schedules at the same time.
C23_Witness ==
  \E i, j \in DOMAIN inv :
    /\ inv[i].proc # inv[j].proc
    /\ ~SameSchedule(i, j)
    /\ Holding(inv[i])
    /\ Holding(inv[j])
    /\ held[<<inv[i].proc, 1>>][inv[i].schedule.id] > 0
    /\ held[<<inv[j].proc, 1>>][inv[j].schedule.id] > 0

\* C27: every tweet generateThread returns is at most maxLength characters
\* long, numbered or not.
C27_TweetsWithinMaxLength ==
  \A k \in DOMAIN threads : threads[k] <= maxLength

\* A step of job run r: the only steps that change a run's record.
StepOf(r) == r \in 1..Len(runs) /\ runs'[r] # runs[r]

\* C24: a step of a dry run of processThankYouTweets, processShillThread or
\* syncObjktData posts no tweet and changes neither the tokens table nor the
\* nft_sales table.
C24_DryRunChangesNothing ==
  [][\A r \in 1..MaxRuns :
       (StepOf(r) /\ runs[r].dryRun)
         => /\ tweets' = tweets
            /\ tokens' = tokens
            /\ sales' = sales]_vars

\* A dry thank-you run holds a batch to thank while a real sync would have
\* had rows to write.
C24_Witness ==
  \E r \in 1..Len(runs) :
    /\ runs[r].dryRun
    /\ runs[r].kind = "thank"
    /\ runs[r].pc = "generate"
    /\ syncObjktData(Database, upstream, FALSE, SyncPhases) # Database

\* The collectors' mints the API has answered: those of holders outside the
\* watched wallets.
CollectorMints == {m \in upstream.mints : m.holder \notin Wallets}

Recorded(m) ==
  \E s \in sales :
    /\ s.fa_contract = m.fa_contract
    /\ s.token_id = m.token_id
    /\ s.buyer_alias = m.holder

\* The step in which the sync of a real run r completes.
Synced(r) ==
  /\ StepOf(r)
  /\ runs[r].pc = "sync"
  /\ runs'[r].pc \notin {"sync", "failed"}
  /\ ~runs[r].dryRun

\* C25: after a completed sync every mint by a holder outside the watched
\* wallets has its own sale record (distinct mints have distinct sale_ids),
\* and no holder inside the watched wallets has one.
C25_EveryMintRecorded ==
  [][\A r \in 1..MaxRuns :
       Synced(r) =>
         /\ \A m \in CollectorMints : Recorded(m)'
         /\ \A m \in upstream.mints \ CollectorMints : ~Recorded(m)']_vars

\* C26: when a real sync has completed, running syncObjktData again against
\* the same upstream data leaves the tokens and nft_sales tables as they are.
C26_SyncIsIdempotent ==
  [][\A r \in 1..MaxRuns :
       Synced(r) =>
         syncObjktData(Database', upstream, FALSE, SyncPhases) = Database']_vars

\* Two real runs have completed their sync, the tables hold the rows of the
\* API's answer, and a collector's mint is among them.
C26_Witness ==
  /\ Len(runs) = MaxRuns
  /\ \A r \in 1..MaxRuns :
       ~runs[r].dryRun /\ runs[r].pc \notin {"sync", "failed"}
  /\ \E m \in CollectorMints : Recorded(m)
  /\ tokens = upstream.tokens
  /\ syncObjktData(Database, upstream, FALSE, SyncPhases) = Database

\* Run r has posted a thank-you tweet that covers the sale.
ThankedBy(r, s) ==
  \E t \in tweets : t.kind = "thank" /\ t.run = r /\ s.sale_id \in t.sale_ids

\* C28: a step of a real thank-you run marks a sale processed only if that
\* run has already posted the tweet of the sale's batch, and the steps that
\* generate and send a batch's tweet, failing or not, mark nothing.
C28_MarkedOnlyAfterPosted ==
  [][\A r \in 1..MaxRuns :
       (StepOf(r) /\ runs[r].kind = "thank" /\ ~runs[r].dryRun) =>
         /\ \A s \in sales :
              (~s.processed /\ s \notin sales') => ThankedBy(r, s)
         /\ runs[r].pc \in {"generate", "send"} => sales' = sales]_vars

\* A real thank-you run has ended: one batch was posted and its sale marked,
\* and a sale of another batch, which failed, is still unprocessed.
C28_Witness ==
  \E r \in 1..Len(runs) :
    /\ runs[r].kind = "thank"
    /\ ~runs[r].dryRun
    /\ runs[r].pc = "done"
    /\ Len(runs) = 1
    /\ \E s \in sales : s.processed /\ ThankedBy(r, s)
    /\ \E s \in getUnprocessedSales(Database) : ~ThankedBy(r, s)
    /\ upstream.mints = OwnMints \cup {m \in Mints : m.holder = "tz1a"
                                                     /\ m.fa_contract = KT_OE}

\* The posted thank-you tweets that cover a sale_id.
ThanksFor(id) == {t \in tweets : t.kind = "thank" /\ id \in t.sale_ids}

\* C29: each sale_id is covered by at most one posted thank-you tweet.
C29_NoSaleThankedTwice ==
  \A s \in sales : Cardinality(ThanksFor(s.sale_id)) <= 1

\* C30: a sale row that has processed = true keeps its row and its flag in
\* every step of a sync, a thank-you run or the mark-processed script.
C30_ProcessedIsMonotone ==
  [][\A s \in sales :
       s.processed =>
         \E t \in sales' : t.sale_id = s.sale_id /\ t.processed]_vars

\* A sale was marked by the mark-processed script (no tweet covers it) and a
\* later sync, which met that sale_id again, has inserted a newer sale.
C30_Witness ==
  /\ \E s \in sales : s.processed /\ ThanksFor(s.sale_id) = {}
  /\ \E s \in sales : ~s.processed

Stale(id) == ~IsRow(rows[id]) \/ ~rows[id].enabled

\* C36: a timer whose row was removed or disabled after start-up still fires
\* at its trigger instant; the firing takes the lock when it is free and then
\* invokes the job body; and for a removed row the timestamp update succeeds
\* and changes no row.
C36_StaleRowStillExecuted ==
  [][/\ \A p \in Procs : \A k \in DOMAIN jobs[p] :
          ( /\ Stale(jobs[p][k].schedule.id)
            /\ Alive(p)
            /\ Len(inv) < MaxFirings
            /\ clock = jobs[p][k].nextFire )
            => ENABLED Fire(p, k)
     /\ \A i \in DOMAIN inv :
          ( /\ Stale(inv[i].schedule.id)
            /\ inv[i].pc = "acquire"
            /\ inv'[i] # inv[i]
            /\ inv'[i].freeBefore
            /\ ~inv'[i].queryFailed )
            => /\ inv'[i].acquired
               /\ inv'[i].pc = "job"
               /\ inv'[i].jobCalls = 1
     /\ \A i \in DOMAIN inv :
          ( /\ ~IsRow(rows[inv[i].schedule.id])
            /\ inv[i].pc = "update"
            /\ Alive(inv[i].proc)
            /\ StoreOpen(inv[i].proc) )
            => /\ ENABLED UpdateOk(i)
               /\ inv'[i].wrote => (rows' = rows
                                    /\ inv'[i].outcome = "completed")]_vars

\* The firing of a timer whose row was removed before the trigger instant
\* took the lock, ran the job body and completed its update, and the row is
\* still gone.
C36_Witness ==
  \E i \in DOMAIN inv :
    /\ ~IsRow(rows[inv[i].schedule.id])
    /\ inv[i].acquired
    /\ inv[i].jobCalls = 1
    /\ inv[i].wrote
    /\ inv[i].outcome = "completed"
    /\ inv[i].pc = "done"

\* C34: a step of a thank-you run that generates or sends the tweet of a
\* batch never ends the run as failed: it either goes on with the same batch
\* or leaves exactly that batch behind and turns to the next one, and the
\* run is done only when no batch is left.
C34_BatchFailureDoesNotStopRun ==
  [][\A r \in 1..MaxRuns :
       (StepOf(r) /\ runs[r].kind = "thank"
          /\ runs[r].pc \in {"generate", "send"}) =>
         /\ runs'[r].pc # "failed"
         /\ \/ /\ runs'[r].batches = runs[r].batches
               /\ runs'[r].pc \in {"send", "mark"}
            \/ /\ runs'[r].batches = runs[r].batches \ {Batch(r)}
               /\ runs'[r].pc = "generate"
               /\ runs'[r].batches # {}
            \/ /\ runs'[r].batches = {}
               /\ runs[r].batches = {Batch(r)}
               /\ runs'[r].pc = "done"]_vars

\* The only run, a real thank-you run, fetched the batches of two tokens;
\* the tweet of the first failed, nothing was posted or marked, and the run
\* is at the second batch.
C34_Witness ==
  /\ Len(runs) = 1
  /\ runs[1].kind = "thank"
  /\ ~runs[1].dryRun
  /\ runs[1].pc = "send"
  /\ Cardinality(runs[1].batches) = 1
  /\ tweets = {}
  /\ Cardinality(BatchesOf(getUnprocessedSales(Database))) = 2
  /\ upstream.mints = OwnMints \cup {m \in Mints : m.holder = "tz1a"
                                                   /\ m.fa_contract = KT_OE}

Range(list) == {list[k] : k \in DOMAIN list}

FirstOf(name) ==
  CHOOSE k \in DOMAIN salesIn :
    /\ salesIn[k].token_name = name
    /\ \A j \in 1..(k - 1) : salesIn[j].token_name # name

\* C31: batchSalesByToken partitions its input -- every input sale_id is in
\* exactly one batch, the batch of its token_name, and once in it; a batch
\* holds only sale_ids of its token_name; the batches come in the order in
\* which their token_names first occur; no buyer mention is twice in a batch.
C31_BatchesPartitionSales ==
  batched # <<>> =>
    /\ \A k \in DOMAIN salesIn :
         /\ Cardinality({b \in DOMAIN batched :
                           Includes(batched[b].sale_ids, k)}) = 1
         /\ \A b \in DOMAIN batched :
              Includes(batched[b].sale_ids, k)
                => /\ batched[b].token_name = salesIn[k].token_name
                   /\ Cardinality({j \in DOMAIN batched[b].sale_ids :
                                     batched[b].sale_ids[j] = k}) = 1
    /\ \A b \in DOMAIN batched : Range(batched[b].sale_ids) \subseteq DOMAIN salesIn
    /\ \A b1, b2 \in DOMAIN batched :
         b1 < b2 => FirstOf(batched[b1].token_name)
                      < FirstOf(batched[b2].token_name)
    /\ \A b \in DOMAIN batched : \A i, j \in DOMAIN batched[b].buyers :
         i # j => batched[b].buyers[i] # batched[b].buyers[j]
    /\ {[token_name |-> batched[b].token_name,
         sale_ids |-> Range(batched[b].sale_ids)] : b \in DOMAIN batched}
         = BatchesOf(Range(salesIn))

\* Three sales of two tokens, the first and the third of the same token: two
\* batches in the order of first occurrence, and in the batch of two sales
\* the same buyer, once through the twitter URL and once through the alias,
\* is mentioned once.
C31_Witness ==
  /\ Len(salesIn) = MaxSales
  /\ Len(batched) = 2
  /\ batched[1].token_name = "oe"
  /\ batched[1].sale_ids = <<1, 3>>
  /\ salesIn[1].buyer_twitter # <<>>
  /\ salesIn[3].buyer_twitter = <<>>
  /\ batched[1].buyers = <<<<64, 98, 111, 98>>>>

Failures(r) == Cardinality({k \in DOMAIN r.outcomes : ~r.outcomes[k]})

\* C32: retryWithBackoff calls fn at most maxAttempts times; it returns the
\* result of the first successful call and calls no more; after the k-th
\* failed attempt, for k < maxAttempts, it waits initialDelay * 2^(k-1), and
\* does not wait after the last attempt; when every attempt failed it raises
\* the error of the last attempt.
C32_RetryWithBackoffLaw ==
  retry.pc # "none" =>
    /\ Len(retry.outcomes) <= retry.maxAttempts
    /\ \A k \in DOMAIN retry.outcomes :
         retry.outcomes[k] => (k = Len(retry.outcomes)
                               /\ retry.pc = "returned"
                               /\ retry.result = k)
    /\ retry.pc = "returned" => retry.outcomes[Len(retry.outcomes)]
    /\ Len(retry.waits) = IF Failures(retry) < retry.maxAttempts
                            THEN Failures(retry)
                            ELSE retry.maxAttempts - 1
    /\ \A k \in DOMAIN retry.waits :
         /\ retry.waits[k] = retry.initialDelay * 2 ^ (k - 1)
         /\ ~retry.outcomes[k]
    /\ retry.pc = "threw" <=> Failures(retry) = retry.maxAttempts
    /\ retry.pc = "threw" => retry.thrown = retry.maxAttempts
    /\ retry.pc = "try" => Len(retry.outcomes) = retry.attempt - 1
    /\ retry.pc = "wait" => Len(retry.outcomes) = retry.attempt

\* A call with the default parameters whose three attempts all failed: it
\* waited 1000 and 2000 ms and raised the error of the third attempt.
C32_Witness ==
  /\ retry.pc = "threw"
  /\ retry.maxAttempts = DefaultAttempts
  /\ retry.initialDelay = DefaultDelay
  /\ retry.outcomes = <<FALSE, FALSE, FALSE>>
  /\ retry.waits = <<DefaultDelay, 2 * DefaultDelay>>
  /\ retry.thrown = DefaultAttempts

\* The indices of the tweets with text before position i.
WithTextBefore(i) == {k \in DOMAIN post.tweets : k < i /\ post.tweets[k]}

Posted == {timeline[k].index : k \in DOMAIN timeline}

\* C33: postThread posts in list order as one reply chain -- the first
\* posted tweet has no reply target and every later one replies to the id of
\* the tweet posted just before it; it returns false exactly when a tweet
\* failed after its retries, having posted every earlier tweet and none from
\* the failed one on; it returns true only with every tweet posted.
C33_ThreadIsOneReplyChain ==
  post.pc # "none" =>
    /\ \A k \in DOMAIN timeline :
         /\ timeline[k].replyTo = IF k = 1 THEN 0 ELSE timeline[k - 1].id
         /\ k > 1 => timeline[k - 1].index < timeline[k].index
         /\ post.tweets[timeline[k].index]
    /\ Cardinality(Posted) = Len(timeline)
    /\ post.result = "false" =>
         /\ retry.pc = "threw"
         /\ post.tweets[post.i]
         /\ Posted = WithTextBefore(post.i)
    /\ post.result = "true" =>
         /\ retry.pc # "threw"
         /\ Posted = WithTextBefore(Len(post.tweets) + 1)
    /\ post.pc = "returned" <=> post.result # "none"

\* The first two of three tweets are posted, the second as a reply to the
\* first; the third failed three times and postThread returned false.
C33_Witness ==
  /\ post.result = "false"
  /\ post.tweets = <<TRUE, TRUE, TRUE>>
  /\ Len(timeline) = 2
  /\ timeline[2].replyTo = timeline[1].id
  /\ retry.outcomes = <<FALSE, FALSE, FALSE>>

====
